---- MODULE Spec2Model ----
(***************************************************************************)
(* BenzoApp: the price-data pipeline (src/src/services/prezzi_csv.py), the  *)
(* geocoder (src/src/services/geocoding.py) and the endpoints that call     *)
(* them (src/src/main.py), as state machines.                               *)
(*                                                                         *)
(* Representation of the program's values                                  *)
(*   - an optional value (None / v) is the sequence <<>> / <<v>>;          *)
(*   - a coordinate is an integer number of tenths of a degree;            *)
(*   - a price is an integer number of thousandths of a euro;              *)
(*   - an instant is an integer number of hours;                           *)
(*   - a date string is a record [fmt, t, off]: its format and the local   *)
(*     time and UTC offset it spells; _parse_date turns it into an instant *)
(*     the way the code's format list and dateutil do;                     *)
(*   - a dict is the sequence of its values in insertion order (each       *)
(*     station record carries its key as "id").                            *)
(***************************************************************************)
EXTENDS Integers, Sequences, FiniteSets, TLC

VARIABLES
    combined,     \* filter harness: the CombinedDataset handed to the filter
    phase,        \* filter harness: "build" | "filtered"
    filterIn,     \* filter harness: [params, now] of the last filter call
    filterOut,    \* filter harness: what the last filter call produced
    ticks,        \* pipeline: the clock, in ticks of 12 hours
    cacheFile,    \* pipeline: the combined-JSON cache file at prezzi_cache_path
    plainDirs,    \* pipeline: the candidate directories holding a local CSV pair
    snapshots,    \* pipeline: the timestamped CSV snapshots of each directory
    task,         \* pipeline: each task's position and locals
    lastStore,    \* pipeline (history): when a query last stored a fetched, non-empty dataset
    runs,         \* pipeline: how many queries and reloads have started
    geocoding_cache,     \* geocoding: the TTL cache, normalized city -> coordinates
    citiesFile,          \* geocoding: the cities.json found on disk, if any
    _LOCAL_CITY_COORDS,  \* geocoding: the local coordinate table held in memory
    call,                \* geocoding: the geocode_city call under way
    search,              \* search: the search_gas_stations request under way
    dirFiles,            \* saving: the files of the target directory
    saver,               \* saving: each _save_csv_files call's position and locals
    saveClock,           \* saving: the clock, in seconds
    saves,               \* saving: how many _save_csv_files calls have started
    keep_versions,       \* saving: settings.prezzi_keep_versions
    csvText,             \* parser harness: the registry text and the price text
    parsing,             \* parser harness: position and locals of the parse
    stations_payload,    \* normalizer harness: the payload handed to parse_and_normalize_stations
    normalizing,         \* normalizer harness: position, arguments and result of the call
    detecting            \* detection harness: the sample, the sniff's outcome and the result

filterVars == <<combined, phase, filterIn, filterOut>>

pipelineVars == <<ticks, cacheFile, plainDirs, snapshots, task, lastStore, runs>>

searchVars == <<geocoding_cache, citiesFile, _LOCAL_CITY_COORDS, call, search>>

\* What the pipeline's actions and the filter harness's actions leave alone
saveVars == <<dirFiles, saver, saveClock, saves, keep_versions>>

parseVars == <<csvText, parsing>>

normalizeVars == <<stations_payload, normalizing>>

detectVars == <<detecting>>

nonPipelineVars == <<filterVars, searchVars, saveVars, parseVars, normalizeVars, detectVars>>
nonFilterVars == <<pipelineVars, searchVars, saveVars, parseVars, normalizeVars, detectVars>>
nonSearchVars == <<filterVars, pipelineVars, saveVars, parseVars, normalizeVars, detectVars>>
nonSaveVars == <<filterVars, pipelineVars, searchVars, parseVars, normalizeVars, detectVars>>
nonParseVars == <<filterVars, pipelineVars, searchVars, saveVars, normalizeVars, detectVars>>
nonNormalizeVars == <<filterVars, pipelineVars, searchVars, saveVars, parseVars, detectVars>>
nonDetectVars == <<filterVars, pipelineVars, searchVars, saveVars, parseVars, normalizeVars>>

vars == <<combined, phase, filterIn, filterOut,
          ticks, cacheFile, plainDirs, snapshots, task, lastStore, runs,
          geocoding_cache, citiesFile, _LOCAL_CITY_COORDS, call, search,
          dirFiles, saver, saveClock, saves, keep_versions,
          csvText, parsing, stations_payload, normalizing, detecting>>

----------------------------------------------------------------------------
(* Bounds of the model *)

MaxStations == 2
MaxTicks == 1
MaxRuns == 3
MaxSaveClock == 2
MaxSaves == 3
MaxAnagRows == 2
MaxPrezziRows == 2
MaxPayload == 3
MaxSampleLines == 2
MaxCols == 3

----------------------------------------------------------------------------
(* Program constants, prezzi_csv.py:36-48 *)

DAYS_RECENCY == 7
EARTH_R_KM == 6371

\* Settings defaults, models.py:68 and models.py:83
prezzi_cache_hours == 24
prezzi_keep_versions == 1

----------------------------------------------------------------------------
(* Small helpers *)

\* float('nan'): a float no ordering comparison holds for and that equals no
\* float, itself included
NaN == -999999999
FloatLt(a, b) == a # NaN /\ b # NaN /\ a < b
FloatEq(a, b) == a # NaN /\ b # NaN /\ a = b

Abs(v) == IF v < 0 THEN -v ELSE v
Min(a, b) == IF a <= b THEN a ELSE b
Max(a, b) == IF a >= b THEN a ELSE b
Range(s) == {s[i] : i \in DOMAIN s}

----------------------------------------------------------------------------
(* Fixed-point arithmetic standing for math.sin, math.cos, math.sqrt and   *)
(* math.atan2 on floats.  Angles are in units of 10^-5 rad; the haversine  *)
(* term a is in units of 10^-10, so great-circle distances up to about 55  *)
(* degrees of arc fit TLC's 32-bit integers.  Results agree with the float *)
(* code to within 2% on the coordinates the model uses.                    *)

FP == 10^5

SinFP(v) ==
    LET ax == Abs(v)
        x2 == (ax * ax) \div FP
        x3 == (x2 * ax) \div FP
        x5 == (x3 * x2) \div FP
        x7 == (x5 * x2) \div FP
        s  == ax - (x3 \div 6) + (x5 \div 120) - (x7 \div 5040)
    IN  IF v < 0 THEN -s ELSE s

\* cos of an angle in 10^-5 rad, in units of 10^-4
CosFP(v) ==
    LET y  == Abs(v) \div 10
        y2 == (y * y) \div 10^4
        y4 == (y2 * y2) \div 10^4
        y6 == (y4 * y2) \div 10^4
        y8 == (y6 * y2) \div 10^4
    IN  10^4 - (y2 \div 2) + (y4 \div 24) - (y6 \div 720) + (y8 \div 40320)

RECURSIVE IsqrtBetween(_, _, _)
IsqrtBetween(n, lo, hi) ==
    IF lo >= hi THEN lo
    ELSE LET mid == (lo + hi + 1) \div 2
         IN  IF mid * mid <= n THEN IsqrtBetween(n, mid, hi)
                               ELSE IsqrtBetween(n, lo, mid - 1)

\* math.sqrt of a value in 10^-10, in units of 10^-5
SqrtFP(n) == IsqrtBetween(n, 0, 46340)

\* math.atan2(sqrt(a), sqrt(1 - a)) = asin(sqrt(a)) for 0 <= a <= 1; h = sqrt(a)
Atan2FP(h) ==
    LET h2 == (h * h) \div FP
        h3 == (h2 * h) \div FP
        h5 == (h3 * h2) \div FP
        h7 == (h5 * h2) \div FP
        h9 == (h7 * h2) \div FP
    IN  h + (h3 \div 6) + ((3 * h5) \div 40) + ((15 * h7) \div 336)
          + ((105 * h9) \div 3456)

\* prezzi_csv.py:51-52; deg in tenths of a degree, result in 10^-5 rad
_deg2rad(deg) == (deg * 314159) \div 1800

\* prezzi_csv.py:55-61; result in units of 10^-5 km
_haversine_km(lat1, lon1, lat2, lon2) ==
    LET r    == EARTH_R_KM
        dlat == _deg2rad(lat2 - lat1)
        dlon == _deg2rad(lon2 - lon1)
        s1   == SinFP(dlat \div 2)
        s2   == Abs(SinFP(dlon \div 2))
        a    == s1 * s1
                + ((s2 * CosFP(_deg2rad(lat1))) \div 10^4)
                  * ((s2 * CosFP(_deg2rad(lat2))) \div 10^4)
        c    == 2 * Atan2FP(SqrtFP(a))
    IN  r * c

\* a float number of kilometres (float(params.distance)) in units of 10^-5 km
KmFP(km) == km * FP

\* round(dist, 2): units of 10^-2 km
Round2(dist) == (dist + 500) \div 1000

----------------------------------------------------------------------------
(* Fuel-kind normalisation, fuel_type_utils.py *)

\* str.lower() on the fuel spellings the model uses
Lower(s) ==
    CASE s = "Benzina" -> "benzina"
      [] s = "Diesel"  -> "diesel"
      [] s = "GPL"     -> "gpl"
      [] OTHER         -> s

FUEL_TYPE_MAPPING ==
    [k \in {"diesel", "gasolio", "benzina", "gasoline", "petrol", "gpl", "metano"} |->
        CASE k = "diesel"   -> "gasolio"
          [] k = "gasolio"  -> "gasolio"
          [] k = "benzina"  -> "benzina"
          [] k = "gasoline" -> "benzina"
          [] k = "petrol"   -> "benzina"
          [] k = "gpl"      -> "GPL"
          [] k = "metano"   -> "metano"]

normalize_fuel_type(fuel_type) ==
    IF fuel_type = "" THEN ""
    ELSE IF Lower(fuel_type) \in DOMAIN FUEL_TYPE_MAPPING
         THEN FUEL_TYPE_MAPPING[Lower(fuel_type)]
         ELSE Lower(fuel_type)

----------------------------------------------------------------------------
(* Dates, prezzi_csv.py:64-82 *)

\* The formats datetime.strptime accepts in _parse_date's loop
StrptimeFormats == {"dmy_hms", "dmy_hm", "dmy"}

\* The date shapes only dateutil_parse reads: ISO without and with a UTC offset
DateutilFormats == {"iso", "iso_tz"}

\* dateutil_parse raises on text that is no date (prezzi_csv.py:74)
DateutilRaises(ds) == ds.fmt \notin StrptimeFormats \cup DateutilFormats

\* `not date_string`: None (fmt "none", a missing key) or the empty string
DateIsFalsy(ds) == ds.fmt \in {"none", ""}

\* _parse_date raises when no strptime format matches and dateutil rejects the text
_parse_date_raises(ds) ==
    /\ ~DateIsFalsy(ds)
    /\ ds.fmt \notin StrptimeFormats
    /\ DateutilRaises(ds)

\* The value _parse_date returns when it does not raise: <<>> is None
_parse_date(ds) ==
    IF DateIsFalsy(ds) THEN <<>>
    ELSE IF ds.fmt \in {"dmy_hms", "dmy_hm"} THEN <<ds.t>>
    ELSE IF ds.fmt = "dmy" THEN <<(ds.t \div 24) * 24>>
    ELSE IF ds.fmt = "iso" THEN <<ds.t>>
    ELSE <<ds.t - ds.off>>

_is_recent_days8(dt, now) ==
    IF dt = <<>> THEN FALSE
    ELSE dt[1] >= now - 24 * (DAYS_RECENCY + 1)

_is_recent(dt, now) ==
    IF dt = <<>> THEN FALSE
    ELSE dt[1] >= now - 24 * DAYS_RECENCY

----------------------------------------------------------------------------
(* The filter, prezzi_csv.py:533-602 *)

\* stations.sort(key=prezzo): Python's sort is stable
RECURSIVE SortedInsert(_, _)
SortedInsert(sorted, s) ==
    IF sorted = <<>> THEN <<s>>
    ELSE IF ~FloatLt(s.prezzo, Head(sorted).prezzo)
         THEN <<Head(sorted)>> \o SortedInsert(Tail(sorted), s)
         ELSE <<s>> \o sorted

RECURSIVE SortByPrezzo(_)
SortByPrezzo(seq) ==
    IF seq = <<>> THEN <<>>
    ELSE SortedInsert(SortByPrezzo(SubSeq(seq, 1, Len(seq) - 1)), seq[Len(seq)])

\* stations[:n] for n >= 0
Slice(seq, n) == SubSeq(seq, 1, Min(n, Len(seq)))

\* params is <<>> (None) or <<[latitude, longitude, distance, fuel, results]>>
ParamFuel(params) ==
    IF params # <<>> /\ params[1].fuel # "" THEN normalize_fuel_type(params[1].fuel) ELSE ""

StationVerdictNoDistance(station, params, now) ==
    LET fuel == ParamFuel(params)
    IN  IF fuel = "" \/ fuel \notin DOMAIN station.prezzi THEN "no_price"
        ELSE IF _parse_date_raises(station.prezzi[fuel].data) THEN "raise"
        ELSE IF ~_is_recent(_parse_date(station.prezzi[fuel].data), now) THEN "stale"
        ELSE IF station.latitudine = <<>> \/ station.longitudine = <<>> THEN "invalid_coords"
        ELSE "keep"

\* One pass of the loop body (lines 551-575): which branch the station takes
StationVerdict(station, params, now) ==
    LET fuel == ParamFuel(params)
    IN  IF fuel = "" \/ fuel \notin DOMAIN station.prezzi THEN "no_price"
        ELSE IF _parse_date_raises(station.prezzi[fuel].data) THEN "raise"
        ELSE IF ~_is_recent(_parse_date(station.prezzi[fuel].data), now) THEN "stale"
        ELSE IF station.latitudine = <<>> \/ station.longitudine = <<>> THEN "invalid_coords"
        ELSE IF /\ params # <<>>
                /\ _haversine_km(params[1].latitude, params[1].longitude,
                                 station.latitudine[1], station.longitudine[1])
                     > KmFP(params[1].distance)
             THEN "out_of_distance"
        ELSE "keep"

\* The dict appended to stations (lines 577-588)
Transformed(station, params) ==
    LET price_info == station.prezzi[ParamFuel(params)]
    IN  [gestore     |-> station.gestore,
         indirizzo   |-> station.indirizzo,
         prezzo      |-> price_info.prezzo,
         self        |-> price_info.self,
         data        |-> price_info.data,
         distanza    |-> IF params = <<>> THEN <<>>
                         ELSE <<Round2(_haversine_km(params[1].latitude, params[1].longitude,
                                                     station.latitudine[1],
                                                     station.longitudine[1]))>>,
         latitudine  |-> station.latitudine[1],
         longitudine |-> station.longitudine[1]]

RECURSIVE Kept(_, _, _)
Kept(comb, params, now) ==
    IF comb = <<>> THEN <<>>
    ELSE IF StationVerdict(Head(comb), params, now) = "keep"
         THEN <<Transformed(Head(comb), params)>> \o Kept(Tail(comb), params, now)
         ELSE Kept(Tail(comb), params, now)

CountVerdict(comb, params, now, v) ==
    Cardinality({i \in DOMAIN comb : StationVerdict(comb[i], params, now) = v})

\* lines 590 and 602
SortAndTruncateNoSort(stations, max_items) ==
    Slice(stations, Max(1, Min(max_items, Len(stations))))

SortAndTruncate(stations, max_items) ==
    Slice(SortByPrezzo(stations), Max(1, Min(max_items, Len(stations))))

\* The whole call.  raised: an exception left the function (no value returned).
\* The four counters are the ones the function logs at line 592.
_filter_and_transform_combined(comb, params, now) ==
    LET max_items == IF params # <<>> THEN params[1].results ELSE 5
        raised    == \E i \in DOMAIN comb : StationVerdict(comb[i], params, now) = "raise"
    IN  [raised   |-> raised,
         stations |-> IF raised THEN <<>>
                      ELSE SortAndTruncate(Kept(comb, params, now), max_items),
         excluded_no_price        |-> CountVerdict(comb, params, now, "no_price"),
         excluded_stale           |-> CountVerdict(comb, params, now, "stale"),
         excluded_invalid_coords  |-> CountVerdict(comb, params, now, "invalid_coords"),
         excluded_out_of_distance |-> CountVerdict(comb, params, now, "out_of_distance")]

----------------------------------------------------------------------------
(* CSV texts and the parser, prezzi_csv.py:113-279                          *)
(*                                                                         *)
(* A string is the record [fmt, t, off]: fmt is "int" for a digit string   *)
(* spelling t, "dec" for a comma-decimal spelling t, a date format for a   *)
(* date string, and otherwise the text itself (t = 0).  A CSV text is      *)
(* [sep, lines]: the separator it was written with and its lines, each the *)
(* sequence of the fields that separator delimits.                         *)

Txt(x) == [fmt |-> x, t |-> 0, off |-> 0]
Digits(n) == [fmt |-> "int", t |-> n, off |-> 0]
Decimal(v) == [fmt |-> "dec", t |-> v, off |-> 0]

\* `id_impianto` alone, without the isdigit() test
IsNonEmpty(s) == s.fmt # ""

\* str.isdigit() on a stripped, non-empty field
IsDigit(s) == s.fmt = "int"

\* float(s.replace(",", ".")) succeeds: on a numeral, and on the text "nan"
FloatOk(s) == s.fmt \in {"int", "dec", "nan"}
FloatOf(s) == IF s.fmt = "nan" THEN NaN ELSE s.t

\* The candidate delimiters of _detect_delimiter, in its order
DelimiterCandidates == <<"|", ";", ",", "TAB">>

\* len(line.split(d)) for a line of the text
SplitCount(text, line, d) == IF d = text.sep THEN Len(line) ELSE 1

\* prezzi_csv.py:47
MIN_CSV_COLUMNS == 2

\* For detection a line is [blank, cols]: whether strip() leaves nothing of it,
\* and for each candidate d the length of line.split(d)
SampleLine(blank, cols) == [blank |-> blank, cols |-> cols]

\* The lines of a text as detection sees them
SampleOf(text) ==
    [i \in DOMAIN text.lines |->
        SampleLine(FALSE, [d \in {"|", ";", ",", "TAB"} |-> SplitCount(text, text.lines[i], d)])]

\* Line 123: [ln for ln in csv_text.splitlines() if ln.strip()]
NonBlank(lines) == SelectSeq(lines, LAMBDA ln : ~ln.blank)

\* csv.reader(csv_text.splitlines(), delimiter=d): a line split on another
\* character than its separator is one field
Reader(text, d) ==
    [i \in DOMAIN text.lines |->
        IF d = text.sep THEN text.lines[i] ELSE <<Txt("unsplit line")>>]

\* The loop of lines 129-133 with `>=` for `>`: the later candidate wins a tie
RECURSIVE BestDelimiterLastWins(_, _, _, _)
BestDelimiterLastWins(header, i, best, best_count) ==
    IF i > Len(DelimiterCandidates) THEN <<best, best_count>>
    ELSE LET d     == DelimiterCandidates[i]
             count == header.cols[d]
         IN  IF count >= best_count
             THEN BestDelimiterLastWins(header, i + 1, d, count)
             ELSE BestDelimiterLastWins(header, i + 1, best, best_count)

\* Lines 127-133: the loop over the candidates from the i-th on
RECURSIVE BestDelimiter(_, _, _, _)
BestDelimiter(header, i, best, best_count) ==
    IF i > Len(DelimiterCandidates) THEN <<best, best_count>>
    ELSE LET d     == DelimiterCandidates[i]
             count == header.cols[d]
         IN  IF count > best_count
             THEN BestDelimiter(header, i + 1, d, count)
             ELSE BestDelimiter(header, i + 1, best, best_count)

\* prezzi_csv.py:113-145.  sample: the lines of csv_text; sniffed: what
\* csv.Sniffer().sniff makes of the first five non-blank lines, <<>> when it
\* raises and <<d>> when its dialect has the delimiter d
_detect_delimiter(sample, sniffed) ==
    LET lines == NonBlank(sample)
    IN  IF lines = <<>> THEN "|"
        ELSE LET found == BestDelimiter(lines[1], 1, "|", 0)
             IN  IF found[2] >= MIN_CSV_COLUMNS THEN found[1]
                 ELSE IF sniffed = <<>> THEN "|"
                 ELSE sniffed[1]

\* Detection on a text of the parser: csv.Sniffer finds nothing in one-column
\* text
DetectInText(text) == _detect_delimiter(SampleOf(text), <<>>)

\* Detection whatever the setting
ChosenDelimiterDetected(text, force_delimiter) == DetectInText(text)

\* force_delimiter is <<>> (None) or <<d>>
ChosenDelimiter(text, force_delimiter) ==
    IF force_delimiter # <<>> THEN force_delimiter[1] ELSE DetectInText(text)

\* An ordered dict of station records keyed by id
HasId(data, id) == \E i \in DOMAIN data : data[i].id = id
IndexOf(data, id) == CHOOSE i \in DOMAIN data : data[i].id = id
PutStation(data, rec) ==
    IF HasId(data, rec.id)
    THEN [data EXCEPT ![IndexOf(data, rec.id)] = rec]
    ELSE Append(data, rec)

\* " ".join(row[i] for i in 5..7 if row[i]).strip(): the non-empty fragments
Indirizzo(row) ==
    SelectSeq(SubSeq(row, 6, 8), LAMBDA f : f.fmt # "")

\* The loop body of _parse_anagrafica (lines 159-178); row[k] of the code is row[k+1]
AnagraficaRow(data, row) ==
    IF Len(row) <= 9 THEN data
    ELSE IF ~IsDigit(row[1]) THEN data
    ELSE IF ~FloatOk(row[9]) \/ ~FloatOk(row[10]) THEN data
    ELSE PutStation(data, [id          |-> row[1].t,
                           gestore     |-> row[3].fmt,
                           indirizzo   |-> Indirizzo(row),
                           latitudine  |-> <<FloatOf(row[9])>>,
                           longitudine |-> <<FloatOf(row[10])>>,
                           prezzi      |-> <<>>])

RECURSIVE AnagraficaRows(_, _)
AnagraficaRows(data, rows) ==
    IF rows = <<>> THEN data
    ELSE AnagraficaRows(AnagraficaRow(data, Head(rows)), Tail(rows))

\* prezzi_csv.py:148-192
_parse_anagrafica(csv_text, force_delimiter) ==
    LET rows == Reader(csv_text, ChosenDelimiter(csv_text, force_delimiter))
    IN  IF rows = <<>> THEN <<>> ELSE AnagraficaRows(<<>>, Tail(rows))

\* `candidate in fuel_raw` after strip().lower(), for the fuel texts the model uses
FuelContains(fuel_raw, candidate) ==
    CASE candidate = "benzina" -> fuel_raw \in {"benzina", "Benzina", "benzina senza piombo"}
      [] candidate = "gasolio" -> fuel_raw \in {"gasolio", "Gasolio speciale"}
      [] candidate = "diesel"  -> fuel_raw \in {"diesel", "Blue Diesel"}
      [] candidate = "gpl"     -> fuel_raw \in {"gpl", "GPL"}
      [] candidate = "metano"  -> fuel_raw \in {"metano"}
      [] OTHER                 -> FALSE

CanonicalCandidates == <<"benzina", "gasolio", "diesel", "gpl", "metano">>

\* The matching candidate as the key, without normalize_fuel_type
CanonicalUnnormalized(fuel_raw) ==
    LET hits == {i \in DOMAIN CanonicalCandidates :
                    FuelContains(fuel_raw, CanonicalCandidates[i])}
    IN  IF hits # {}
        THEN CanonicalCandidates[CHOOSE i \in hits : \A k \in hits : i <= k]
        ELSE fuel_raw

\* lines 212-228
Canonical(fuel_raw) ==
    LET hits == {i \in DOMAIN CanonicalCandidates :
                    FuelContains(fuel_raw, CanonicalCandidates[i])}
    IN  IF hits # {}
        THEN normalize_fuel_type(
                 CanonicalCandidates[CHOOSE i \in hits : \A k \in hits : i <= k])
        ELSE normalize_fuel_type(fuel_raw)

\* d with d[key] = value
DictSet(d, key, value) ==
    [k \in (DOMAIN d) \cup {key} |-> IF k = key THEN value ELSE d[k]]

\* The loop body of _parse_prezzi (lines 207-241)
PrezziRow(data, row) ==
    IF Len(row) <= 4 THEN data
    ELSE IF ~IsDigit(row[1]) \/ ~HasId(data, row[1].t) THEN data
    ELSE LET i         == IndexOf(data, row[1].t)
             canonical == Canonical(row[2].fmt)
             price     == IF FloatOk(row[3]) THEN <<FloatOf(row[3])>> ELSE <<>>
             prezzi    == data[i].prezzi
         IN  IF /\ price # <<>>
                /\ (canonical \notin DOMAIN prezzi
                        \/ FloatLt(price[1], prezzi[canonical].prezzo))
             THEN [data EXCEPT ![i].prezzi =
                      DictSet(prezzi, canonical,
                              [prezzo |-> price[1],
                               self   |-> (row[4].fmt = "int" /\ row[4].t = 1),
                               data   |-> row[5]])]
             ELSE data

RECURSIVE PrezziRows(_, _)
PrezziRows(data, rows) ==
    IF rows = <<>> THEN data
    ELSE PrezziRows(PrezziRow(data, Head(rows)), Tail(rows))

\* prezzi_csv.py:195-256
_parse_prezzi(csv_text, data, force_delimiter) ==
    LET rows == Reader(csv_text, ChosenDelimiter(csv_text, force_delimiter))
    IN  IF rows = <<>> THEN data ELSE PrezziRows(data, Tail(rows))

\* prezzi_csv.py:259-279
_parse_and_combine_sync(anag_text, prezzi_text, force_delimiter) ==
    _parse_prezzi(prezzi_text, _parse_anagrafica(anag_text, force_delimiter), force_delimiter)

----------------------------------------------------------------------------
(* The pipeline's environment: clock, remote endpoints, local files *)

\* datetime.now(): the clock starts on day 10 at 00:00 and ticks by 24 hours
Now == 240 + 24 * ticks

\* prezzi_csv.py:447-454.  local_dir is <<>> (None or "") or <<directory>>;
\* PROJECT_ROOT is three levels above src/services/prezzi_csv.py (line 33) and
\* Path(__file__).parent is src/services
candidate_dirs(local_dir) ==
    local_dir \o <<"PROJECT_ROOT/data", "PROJECT_ROOT/src/services/static/data">>

\* _candidate_local_csv_dirs with prezzi_local_data_dir unset
_candidate_local_csv_dirs == candidate_dirs(<<>>)

\* settings.prezzi_csv_delimiter == "auto" (models.py:69-75): force_delimiter is None
force_delimiter == <<>>

DateToday == [fmt |-> "dmy_hms", t |-> 239, off |-> 0]

AnagHeader == [i \in 1..10 |-> Txt("col")]
PrezziHeader == [i \in 1..5 |-> Txt("col")]

AnagLine(id, lat, lon) ==
    <<Digits(id), Digits(0), Txt("GestoreX"), Digits(0), Digits(0),
      Txt("Via"), Txt("Test"), Txt("City"), Decimal(lat), Decimal(lon)>>

PrezziLine(id, fuel, price) ==
    <<Digits(id), Txt(fuel), Decimal(price), Digits(1), DateToday>>

PipeText(lines) == [sep |-> "|", lines |-> lines]

\* The CSV texts of the pipeline, by name: what the remote publishes ("A", or
\* "E", a header with no rows) and what each local directory may hold
AnagText(name) ==
    CASE name = "A"  -> PipeText(<<AnagHeader, AnagLine(1, 437, 112), AnagLine(2, 437, 113)>>)
      [] name = "E"  -> PipeText(<<AnagHeader>>)
      [] name = "L1" -> PipeText(<<AnagHeader, AnagLine(3, 437, 112)>>)
      [] name = "L2" -> PipeText(<<AnagHeader, AnagLine(4, 437, 112)>>)

PrezziText(name) ==
    CASE name = "A"  -> PipeText(<<PrezziHeader, PrezziLine(1, "benzina", 1450),
                                   PrezziLine(2, "Benzina", 1400)>>)
      [] name = "E"  -> PipeText(<<PrezziHeader>>)
      [] name = "L1" -> PipeText(<<PrezziHeader, PrezziLine(3, "benzina", 1600)>>)
      [] name = "L2" -> PipeText(<<PrezziHeader, PrezziLine(4, "benzina", 1700)>>)

RemoteVersions == {"A", "E"}

\* The two file names _load_local_csvs looks for in a directory
PlainNames == {"anagrafica_impianti_attivi.csv", "prezzo_alle_8.csv"}

\* Both files of directory d
PairIn(d) == {<<d, n>> : n \in PlainNames}

\* Which files the candidate directories hold, as <<directory, name>>: none; a
\* pair in the second only; a pair in both; the registry alone in the first and
\* a pair in the second; the registry alone in the first and the prices alone
\* in the second
LocalLayouts ==
    {{},
     PairIn(_candidate_local_csv_dirs[2]),
     PairIn(_candidate_local_csv_dirs[1]) \cup PairIn(_candidate_local_csv_dirs[2]),
     {<<_candidate_local_csv_dirs[1], "anagrafica_impianti_attivi.csv">>}
         \cup PairIn(_candidate_local_csv_dirs[2]),
     {<<_candidate_local_csv_dirs[1], "anagrafica_impianti_attivi.csv">>,
      <<_candidate_local_csv_dirs[2], "prezzo_alle_8.csv">>}}

\* What a directory's anagrafica_impianti_attivi.csv / prezzo_alle_8.csv hold
PlainPairOf(d) == IF d = _candidate_local_csv_dirs[1] THEN "L1" ELSE "L2"

\* texts is <<name of the registry text, name of the price text>>
TextNames == RemoteVersions \cup {"L1", "L2"}

\* _parse_and_combine_sync on each pair of texts of the same name, tabulated
ParsedPair ==
    [n \in TextNames |-> _parse_and_combine_sync(AnagText(n), PrezziText(n), force_delimiter)]

\* The datasets the tasks hold at the moment, one after the other
RECURSIVE Concat(_)
Concat(seqs) == IF seqs = <<>> THEN <<>> ELSE Head(seqs) \o Concat(Tail(seqs))

HeldDatasets ==
    Concat(<<IF task["q1"].combined = <<>> THEN <<>> ELSE task["q1"].combined[1],
             IF task["q1"].combined2 = <<>> THEN <<>> ELSE task["q1"].combined2[1],
             IF task["reload"].combined = <<>> THEN <<>> ELSE task["reload"].combined[1]>>)

\* A parser whose `data` dict is a module-level dict that is never emptied:
\* the rows are merged into what earlier parses left behind
ParseTextsIntoSharedDict(texts, force) ==
    LET anag   == Reader(AnagText(texts[1]), ChosenDelimiter(AnagText(texts[1]), force))
        prezzi == Reader(PrezziText(texts[2]), ChosenDelimiter(PrezziText(texts[2]), force))
    IN  PrezziRows(AnagraficaRows(HeldDatasets, Tail(anag)), Tail(prezzi))

ParseTexts(texts, force) ==
    IF texts[1] = texts[2] /\ force = force_delimiter
    THEN ParsedPair[texts[1]]
    ELSE _parse_and_combine_sync(AnagText(texts[1]), PrezziText(texts[2]), force)

\* The search every query of the pipeline makes
QueryParams ==
    <<[latitude |-> 437, longitude |-> 112, distance |-> 10, fuel |-> "benzina", results |-> 5]>>

\* How the two concurrent GETs end (lines 360-366): both responses are 2xx, or
\* the try block is left with one of the exceptions the except clauses tell apart
RemoteResults == {"ok", "HTTPStatusError", "RequestError", "Exception"}

----------------------------------------------------------------------------
(* Cache file, prezzi_csv.py:85-110 and 334-352 *)

\* JSON values: a number literal, the literal NaN that json.dumps writes for
\* float('nan') and json.loads reads back as a new float('nan'), null, true /
\* false, a string
JsonFloat(x) == IF x = NaN THEN [lit |-> "NaN", v |-> 0] ELSE [lit |-> "number", v |-> x]
FloatOfJson(j) == IF j.lit = "NaN" THEN NaN ELSE j.v
JsonOptFloat(opt) == IF opt = <<>> THEN [lit |-> "null", v |-> 0] ELSE JsonFloat(opt[1])
OptFloatOfJson(j) == IF j.lit = "null" THEN <<>> ELSE <<FloatOfJson(j)>>
JsonBool(b) == IF b THEN "true" ELSE "false"
JsonString(s) == [lit |-> "string", s |-> s]

\* json.dumps(payload, ensure_ascii=False), line 107: the document of a
\* merged dataset, its members in the dict's order
json_dumps(payload) ==
    [n \in DOMAIN payload |->
        [key         |-> JsonString(payload[n].id),
         gestore     |-> JsonString(payload[n].gestore),
         indirizzo   |-> JsonString(payload[n].indirizzo),
         latitudine  |-> JsonOptFloat(payload[n].latitudine),
         longitudine |-> JsonOptFloat(payload[n].longitudine),
         prezzi      |-> [k \in DOMAIN payload[n].prezzi |->
                            [prezzo |-> JsonFloat(payload[n].prezzi[k].prezzo),
                             self   |-> JsonBool(payload[n].prezzi[k].self),
                             data   |-> JsonString(payload[n].prezzi[k].data)]]]]

\* json.loads(content), line 93
json_loads(doc) ==
    [n \in DOMAIN doc |->
        [id          |-> doc[n].key.s,
         gestore     |-> doc[n].gestore.s,
         indirizzo   |-> doc[n].indirizzo.s,
         latitudine  |-> OptFloatOfJson(doc[n].latitudine),
         longitudine |-> OptFloatOfJson(doc[n].longitudine),
         prezzi      |-> [k \in DOMAIN doc[n].prezzi |->
                            [prezzo |-> FloatOfJson(doc[n].prezzi[k].prezzo),
                             self   |-> doc[n].prezzi[k].self = "true",
                             data   |-> doc[n].prezzi[k].data.s]]]]

\* a == b for two floats that are not one object
FloatsEqual(a, b) == FloatEq(a, b)
FloatsEqualOrBothNaN(a, b) == a = b

OptFloatsEqual(a, b) ==
    IF a = <<>> \/ b = <<>> THEN a = b ELSE FloatsEqual(a[1], b[1])

\* a == b for two datasets that share no object: the same keys, and equal
\* values under each
DatasetsEqual(a, b) ==
    /\ {a[n].id : n \in DOMAIN a} = {b[n].id : n \in DOMAIN b}
    /\ Len(a) = Len(b)
    /\ \A n \in DOMAIN a : \A o \in DOMAIN b :
          a[n].id = b[o].id =>
             /\ a[n].gestore = b[o].gestore
             /\ a[n].indirizzo = b[o].indirizzo
             /\ OptFloatsEqual(a[n].latitudine, b[o].latitudine)
             /\ OptFloatsEqual(a[n].longitudine, b[o].longitudine)
             /\ DOMAIN a[n].prezzi = DOMAIN b[o].prezzi
             /\ \A k \in DOMAIN a[n].prezzi :
                   /\ FloatsEqual(a[n].prezzi[k].prezzo, b[o].prezzi[k].prezzo)
                   /\ a[n].prezzi[k].self = b[o].prezzi[k].self
                   /\ a[n].prezzi[k].data = b[o].prezzi[k].data

\* The file: exists; complete (its text is a whole JSON document, doc) or not
\* (truncated or part-written text); mtime
NoFile == [exists |-> FALSE, complete |-> FALSE, doc |-> <<>>, mtime |-> 0]

\* A file is taken for fresh whatever its age
_is_cache_fresh_any_age(file, now) == file.exists

\* prezzi_csv.py:334-348, hours_old < cache_hours
_is_cache_fresh(file, now) ==
    IF ~file.exists THEN FALSE
    ELSE (now - file.mtime) < prezzi_cache_hours

\* prezzi_csv.py:85-97: <<>> is None; json.loads raises on text that is not a
\* whole document and the except clause returns None
_read_json_file_unguarded(file) ==
    IF ~file.exists THEN <<>>
    ELSE <<json_loads(file.doc)>>

_read_json_file(file) ==
    IF ~file.exists THEN <<>>
    ELSE IF ~file.complete THEN <<>>
    ELSE <<json_loads(file.doc)>>

\* prezzi_csv.py:100-110, the file once write_text has returned
_write_json_file(payload, now) ==
    [exists |-> TRUE, complete |-> TRUE, doc |-> json_dumps(payload), mtime |-> now]

_load_cached_combined(file) == _read_json_file(file)

\* fetch_and_combine_csv_data lines 297-306: is the cached value used as combined?
CachedIsUsedAlways(cached) == cached # <<>>

CachedIsUsedNever(cached) == FALSE

CachedIsUsed(cached) == cached # <<>> /\ Len(cached[1]) > 0

----------------------------------------------------------------------------
(* Fetching, prezzi_csv.py:355-444 *)

\* The candidates, in order, that hold the file called name
Holding(plain, name) ==
    {i \in DOMAIN _candidate_local_csv_dirs : <<_candidate_local_csv_dirs[i], name>> \in plain}

First(indices) == CHOOSE i \in indices : \A k \in indices : i <= k

\* Each file is taken from the first candidate that holds it
_load_local_csvs_per_file(plain, read_fails) ==
    LET anag   == Holding(plain, "anagrafica_impianti_attivi.csv")
        prezzi == Holding(plain, "prezzo_alle_8.csv")
    IN  IF anag = {} \/ prezzi = {}
        THEN [exc |-> "FileNotFoundError", texts |-> <<>>, dir |-> ""]
        ELSE LET da == _candidate_local_csv_dirs[First(anag)]
                 dp == _candidate_local_csv_dirs[First(prezzi)]
             IN  IF read_fails
                 THEN [exc |-> "OSError", texts |-> <<>>, dir |-> da]
                 ELSE [exc |-> "", texts |-> <<PlainPairOf(da), PlainPairOf(dp)>>, dir |-> da]

\* prezzi_csv.py:423-444.  exc: "" or the exception raised
_load_local_csvs(plain, read_fails) ==
    LET have == Holding(plain, "anagrafica_impianti_attivi.csv")
                    \cap Holding(plain, "prezzo_alle_8.csv")
    IN  IF have = {}
        THEN [exc |-> "FileNotFoundError", texts |-> <<>>, dir |-> ""]
        ELSE LET d == _candidate_local_csv_dirs[First(have)]
             IN  IF read_fails
                 THEN [exc |-> "OSError", texts |-> <<>>, dir |-> d]
                 ELSE [exc |-> "", texts |-> <<PlainPairOf(d), PlainPairOf(d)>>, dir |-> d]

\* What the except clauses raise when the local fallback failed too (lines 373-375,
\* 383-385, 392-394)
FallbackRaisesLocal(original_exc, local_exc) == local_exc

FallbackRaises(original_exc, local_exc) == original_exc

\* What http_client.get itself raises, before there is a response
GetRaises == {"RequestError", "Exception"}

\* prezzi_csv.py:360-366: what the try block is left with.  gather re-raises the
\* first exception a GET raised (first names the GET that ended first); with two
\* responses, raise_for_status is called on the registry's, then on the prices'.
gather_and_raise_for_status(get_anag, get_prezzi, first) ==
    IF get_anag \in GetRaises /\ get_prezzi \in GetRaises
    THEN (IF first = "anagrafica" THEN get_anag ELSE get_prezzi)
    ELSE IF get_anag \in GetRaises THEN get_anag
    ELSE IF get_prezzi \in GetRaises THEN get_prezzi
    ELSE IF get_anag # "ok" THEN get_anag
    ELSE get_prezzi

\* prezzi_csv.py:355-420.  gets: what the try block is left with; version: what
\* the remote publishes at the time.  In the result, remote tells whether the GETs
\* succeeded, raised is the exception the function is left with ("" when it
\* returns texts) and original_exc the exception its handler had caught then.
_fetch_csvs(gets, version, plain, read_fails) ==
    LET local == _load_local_csvs(plain, read_fails)
    IN  IF gets = "ok"
        THEN [raised |-> "", original_exc |-> "", texts |-> <<version, version>>,
              origin |-> "remote", remote |-> "ok"]
        ELSE IF local.exc = ""
        THEN [raised |-> "", original_exc |-> "", texts |-> local.texts,
              origin |-> local.dir, remote |-> "failed"]
        ELSE [raised |-> FallbackRaises(gets, local.exc), original_exc |-> gets,
              texts |-> <<>>, origin |-> "none", remote |-> "failed"]

----------------------------------------------------------------------------
(* Snapshots, prezzi_csv.py:457-516 *)

NoSnapshots == [d \in Range(_candidate_local_csv_dirs) |-> [anag |-> {}, prezzi |-> {}]]

\* A file named <prefix><ts>.csv holding text: [ts, text]; replace() overwrites
\* the file of the same name
WithFile(files, ts, text) ==
    {f \in files : f.ts # ts} \cup {[ts |-> ts, text |-> text]}

\* sorted without reverse=True: the oldest are kept
_cleanup_old_csvs_ascending(files, keep) ==
    {f \in files : Cardinality({g \in files : g.ts < f.ts}) < keep}

\* prezzi_csv.py:504-516: sorted by name, newest first; files[keep:] are removed
_cleanup_old_csvs(files, keep) ==
    {f \in files : Cardinality({g \in files : g.ts > f.ts}) < keep}

\* prezzi_csv.py:480-495 on the target directory's files
SavedFiles(dirfiles, texts, ts) ==
    [anag   |-> _cleanup_old_csvs(WithFile(dirfiles.anag, ts, texts[1]), prezzi_keep_versions),
     prezzi |-> _cleanup_old_csvs(WithFile(dirfiles.prezzi, ts, texts[2]), prezzi_keep_versions)]

----------------------------------------------------------------------------
(* Tasks *)

Queries == {"q1"}
Fetchers == Queries \cup {"reload"}
Tasks == Queries \cup {"reload", "preload"}

\* A task's locals.  pc: where it stands; fresh / cached / read_partial: what the
\* cache check saw; remote, original_exc, reqs, texts, origin: what _fetch_csvs
\* did; combined,
\* combined2: the datasets parsed; saved_dir; err: the exception the task ended
\* with; result: the stations returned; detached: the file the task is writing
\* was unlinked after it opened it; windowed (history): the task began within
\* the freshness window of a query's store; reply: the status reload_csv
\* answered when it started the task.
IdleTask ==
    [pc |-> "idle", fresh |-> FALSE, cached |-> <<>>, read_partial |-> FALSE,
     remote |-> "none", original_exc |-> "", reqs |-> {}, texts |-> <<>>, origin |-> "none",
     combined |-> <<>>, combined2 |-> <<>>, saved_dir |-> <<>>, err |-> "",
     result |-> <<>>, windowed |-> FALSE, detached |-> FALSE, reply |-> ""]

\* Where a task goes after _write_json_file returns
AfterWrite(t, second) ==
    IF t = "preload" THEN "done"
    ELSE IF second THEN "filter"
    ELSE "save"

\* preload: settings.prezzi_preload_on_startup (models.py:87, main.py:95-99)
PipelineInit(preload) ==
    /\ ticks = 0
    /\ cacheFile = NoFile
    /\ plainDirs \in LocalLayouts
    /\ snapshots = NoSnapshots
    /\ task = [t \in Tasks |-> IF t = "preload" /\ preload
                               THEN [IdleTask EXCEPT !.pc = "start"]
                               ELSE IdleTask]
    /\ lastStore = <<>>
    /\ runs = 0

\* The pipeline at rest, for the harnesses that do not run it
PipelineParked ==
    /\ ticks = 0
    /\ cacheFile = NoFile
    /\ plainDirs = {}
    /\ snapshots = NoSnapshots
    /\ task = [t \in Tasks |-> IdleTask]
    /\ lastStore = <<>>
    /\ runs = 0

AtRest(t) == task[t].pc = "idle"

\* A day passes; the tasks take seconds, so none is under way meanwhile.  A
\* store that has left the freshness window is forgotten.
Tick ==
    /\ ticks < MaxTicks
    /\ \A t \in Tasks : AtRest(t)
    /\ ticks' = ticks + 1
    /\ lastStore' = IF lastStore # <<>> /\ (Now + 24) - lastStore[1] >= prezzi_cache_hours
                    THEN <<>> ELSE lastStore
    /\ UNCHANGED <<cacheFile, plainDirs, snapshots, task, runs>>
    /\ UNCHANGED nonPipelineVars

\* fetch_and_combine_csv_data line 296
QueryIsCacheFresh(t) ==
    /\ t \in Queries
    /\ task[t].pc = "idle"
    /\ runs < MaxRuns
    /\ runs' = runs + 1
    /\ LET fresh == _is_cache_fresh(cacheFile, Now)
       IN  task' = [task EXCEPT ![t] =
                      [IdleTask EXCEPT
                          !.pc = IF fresh THEN "load_cached" ELSE "fetch",
                          !.fresh = fresh,
                          !.windowed = /\ lastStore # <<>>
                                       /\ Now - lastStore[1] < prezzi_cache_hours]]
    /\ UNCHANGED <<ticks, cacheFile, plainDirs, snapshots, lastStore>>
    /\ UNCHANGED nonPipelineVars

\* fetch_and_combine_csv_data lines 298-306
QueryLoadCached(t) ==
    /\ t \in Queries
    /\ task[t].pc = "load_cached"
    /\ LET cached == _load_cached_combined(cacheFile)
       IN  task' = [task EXCEPT ![t] =
                      [@ EXCEPT
                          !.cached = cached,
                          !.read_partial = cacheFile.exists /\ ~cacheFile.complete,
                          !.combined = IF CachedIsUsed(cached) THEN cached ELSE <<>>,
                          !.origin = IF CachedIsUsed(cached) THEN "cache" ELSE "none",
                          !.pc = IF CachedIsUsed(cached) THEN "filter" ELSE "fetch"]]
    /\ UNCHANGED <<ticks, cacheFile, plainDirs, snapshots, lastStore, runs>>
    /\ UNCHANGED nonPipelineVars

\* _fetch_csvs and the parse that follows it (lines 313-317; main.py:428-432).
\* An exception leaves fetch_and_combine_csv_data; trigger_fetch logs it and ends.
\* The published version matters only when the GETs succeed, a failing local
\* read only when they do not, the order the GETs end in only when both raise.
FetchCsvs(t) ==
    /\ t \in Fetchers
    /\ task[t].pc = "fetch"
    /\ \E get_anag \in RemoteResults, get_prezzi \in RemoteResults,
          first \in {"anagrafica", "prezzi"}, v \in RemoteVersions, rf \in BOOLEAN :
          LET gets == gather_and_raise_for_status(get_anag, get_prezzi, first)
              r    == _fetch_csvs(gets, v, plainDirs, rf)
          IN  /\ gets = "ok" => ~rf
              /\ gets # "ok" => v = "A"
              /\ {get_anag, get_prezzi} \subseteq GetRaises \/ first = "anagrafica"
              /\ task' = [task EXCEPT ![t] =
                            IF r.raised # "" /\ t \notin Queries
                            THEN IdleTask
                            ELSE [@ EXCEPT
                                     !.remote = r.remote,
                                     !.original_exc = r.original_exc,
                                     !.reqs = {"anagrafica", "prezzi"},
                                     !.texts = r.texts,
                                     !.origin = r.origin,
                                     !.err = r.raised,
                                     !.combined = IF r.raised = ""
                                                  THEN <<ParseTexts(r.texts, force_delimiter)>>
                                                  ELSE <<>>,
                                     !.pc = IF r.raised = "" THEN "write_json" ELSE "done"]]
    /\ UNCHANGED <<ticks, cacheFile, plainDirs, snapshots, lastStore, runs>>
    /\ UNCHANGED nonPipelineVars

\* A step of persisting raised and the exception leaves the function
PersistRaisedPropagates(rec, next) == [rec EXCEPT !.err = "OSError", !.pc = "done"]

\* A step of persisting raised: the except clause of _write_json_file (lines
\* 107-109) or of _save_csv_files (lines 496-499) logs it, the function returns
\* None and the caller goes on at next
PersistRaised(rec, next) == [rec EXCEPT !.pc = next]

\* _write_json_file, first half: write_text opens the file, which truncates it;
\* or mkdir / open raise and the except clause logs it (lines 100-110)
WriteJsonOpen(t) ==
    /\ task[t].pc \in {"write_json", "write_json2"}
    /\ \/ /\ cacheFile' = [exists |-> TRUE, complete |-> FALSE, doc |-> <<>>, mtime |-> Now]
          /\ task' = [task EXCEPT ![t].pc =
                         IF task[t].pc = "write_json" THEN "writing" ELSE "writing2"]
       \/ /\ cacheFile' = cacheFile
          /\ task' = [task EXCEPT ![t] =
                         PersistRaised(@, AfterWrite(t, task[t].pc = "write_json2"))]
    /\ UNCHANGED <<ticks, plainDirs, snapshots, lastStore, runs>>
    /\ UNCHANGED nonPipelineVars

\* _write_json_file, second half: the text is written and the file closed.  When
\* another writer has written the file since this one opened it, the two writes
\* overlap and the text may be no document at all.  When the file was unlinked
\* since, the text goes to the unlinked file and is lost.
WriteJsonClose(t) ==
    /\ task[t].pc \in {"writing", "writing2"}
    /\ LET second == task[t].pc = "writing2"
           doc    == IF second THEN task[t].combined2[1] ELSE task[t].combined[1]
       IN  /\ \/ /\ ~task[t].detached
                 /\ cacheFile' = _write_json_file(doc, Now)
              \/ /\ ~task[t].detached
                 /\ cacheFile.exists /\ cacheFile.complete
                 /\ cacheFile' = [exists |-> TRUE, complete |-> FALSE, doc |-> <<>>,
                                  mtime |-> Now]
              \/ /\ task[t].detached
                 /\ cacheFile' = cacheFile
           /\ task' = [task EXCEPT ![t].pc = AfterWrite(t, second), ![t].detached = FALSE]
           /\ lastStore' = IF /\ t \in Queries /\ ~second /\ doc # <<>>
                              /\ ~task[t].detached /\ cacheFile'.complete
                           THEN <<Now>> ELSE lastStore
    /\ UNCHANGED <<ticks, plainDirs, snapshots, runs>>
    /\ UNCHANGED nonPipelineVars

\* _save_csv_files (lines 457-501): the pair is written under timestamped names
\* in the first candidate directory and older snapshots are removed; or a step
\* raises and it returns None
SaveCsvFiles(t) ==
    /\ t \in Fetchers
    /\ task[t].pc = "save"
    /\ LET target_dir == _candidate_local_csv_dirs[1]
       IN  \/ /\ snapshots' = [snapshots EXCEPT ![target_dir] =
                                  SavedFiles(@, task[t].texts, Now)]
              /\ task' = [task EXCEPT ![t] =
                             IF t \in Queries
                             THEN [@ EXCEPT !.saved_dir = <<target_dir>>, !.pc = "reload_local"]
                             ELSE IdleTask]
           \/ /\ snapshots' = snapshots
              /\ task' = [task EXCEPT ![t] =
                             IF t \in Queries
                             THEN PersistRaised([@ EXCEPT !.saved_dir = <<>>], "filter")
                             ELSE IdleTask]
    /\ UNCHANGED <<ticks, cacheFile, plainDirs, lastStore, runs>>
    /\ UNCHANGED nonPipelineVars

\* fetch_and_combine_csv_data lines 321-329
QueryReloadLocal(t) ==
    /\ t \in Queries
    /\ task[t].pc = "reload_local"
    /\ \E rf \in BOOLEAN :
          LET local == _load_local_csvs(plainDirs, rf)
          IN  task' = [task EXCEPT ![t] =
                         IF local.exc = ""
                         THEN [@ EXCEPT !.combined2 = <<ParseTexts(local.texts, force_delimiter)>>,
                                        !.pc = "write_json2"]
                         ELSE [@ EXCEPT !.pc = "filter"]]
    /\ UNCHANGED <<ticks, cacheFile, plainDirs, snapshots, lastStore, runs>>
    /\ UNCHANGED nonPipelineVars

\* fetch_and_combine_csv_data line 331
QueryFilter(t) ==
    /\ t \in Queries
    /\ task[t].pc = "filter"
    /\ LET out == _filter_and_transform_combined(task[t].combined[1], QueryParams, Now)
       IN  task' = [task EXCEPT ![t] =
                      [@ EXCEPT !.result = out.stations,
                                !.err = IF out.raised THEN "ParserError" ELSE "",
                                !.pc = "done"]]
    /\ UNCHANGED <<ticks, cacheFile, plainDirs, snapshots, lastStore, runs>>
    /\ UNCHANGED nonPipelineVars

\* The caller has the answer (or the exception); the task may serve another query
QueryReturn(t) ==
    /\ t \in Queries
    /\ task[t].pc = "done"
    /\ task' = [task EXCEPT ![t] = IdleTask]
    /\ UNCHANGED <<ticks, cacheFile, plainDirs, snapshots, lastStore, runs>>
    /\ UNCHANGED nonPipelineVars

\* Path.unlink (main.py:418): the file is gone
UnlinkKeeps(file) == file
Unlink(file) == NoFile

\* reload_csv (main.py:405-459): the cache file is removed, trigger_fetch is
\* started as a task and the handler answers "reload_started"; or removing
\* the file raises, nothing is started and the handler answers "error"
ReloadCsv ==
    /\ task["reload"].pc = "idle"
    /\ runs < MaxRuns
    /\ runs' = runs + 1
    /\ \/ /\ cacheFile' = IF cacheFile.exists THEN Unlink(cacheFile) ELSE cacheFile
          /\ task' = [t \in Tasks |->
                         IF t = "reload"
                         THEN [IdleTask EXCEPT !.pc = "fetch", !.reply = "reload_started"]
                         ELSE IF task[t].pc \in {"writing", "writing2"} /\ cacheFile.exists
                         THEN [task[t] EXCEPT !.detached = TRUE]
                         ELSE task[t]]
       \/ /\ cacheFile.exists
          /\ cacheFile' = cacheFile
          /\ task' = [task EXCEPT !["reload"] = [IdleTask EXCEPT !.reply = "error"]]
    /\ UNCHANGED <<ticks, plainDirs, snapshots, lastStore>>
    /\ UNCHANGED nonPipelineVars

\* preload_local_csv_cache (lines 519-530), started at startup (main.py:95-99)
PreloadLocalCsvCache ==
    /\ task["preload"].pc = "start"
    /\ \E rf \in BOOLEAN :
          LET local == _load_local_csvs(plainDirs, rf)
          IN  task' = [task EXCEPT !["preload"] =
                         IF local.exc = ""
                         THEN [@ EXCEPT !.texts = local.texts,
                                        !.origin = local.dir,
                                        !.combined = <<ParseTexts(local.texts, <<>>)>>,
                                        !.pc = "write_json"]
                         ELSE [@ EXCEPT !.err = local.exc, !.pc = "done"]]
    /\ UNCHANGED <<ticks, cacheFile, plainDirs, snapshots, lastStore, runs>>
    /\ UNCHANGED nonPipelineVars

----------------------------------------------------------------------------
(* Geocoding, geocoding.py                                                 *)
(*                                                                         *)
(* A city string is [name, caps, pad]: its letters in lower case, whether  *)
(* it is written with capitals and whether blanks surround it.  A key of   *)
(* the cache and of the local table is the plain lower-case name.          *)

City(name, caps, pad) == [name |-> name, caps |-> caps, pad |-> pad]

\* str.strip() and str.lower()
CityStrip(c) == [c EXCEPT !.pad = FALSE]
CityLower(c) == [c EXCEPT !.caps = FALSE]

\* geocoding.py:23
ALIASES == [k \in {"florence", "firenze"} |-> "firenze"]

\* city.strip().lower() alone, without the alias table
normalize_city_input_no_alias(city) == CityLower(CityStrip(city)).name

\* geocoding.py:80-83
normalize_city_input(city) ==
    LET c == CityLower(CityStrip(city)).name
    IN  IF c \in DOMAIN ALIASES THEN ALIASES[c] ELSE c

\* The cities the callers ask for
CityInputs == {City("firenze", TRUE, TRUE), City("florence", FALSE, FALSE),
               City("roma", TRUE, FALSE)}

Coords(lat, lon) == [latitude |-> lat, longitude |-> lon]

\* A decimal number spelled with a dot, and float() / int() of a string
DotDecimal(v) == [fmt |-> "dot", t |-> v, off |-> 0]
PyFloat(s) == s.t
IntOk(s) == s.fmt = "int"

\* What cities.json can hold: no file, or one entry "Firenze"
CitiesFiles ==
    {<<>>, << <<[city |-> City("firenze", TRUE, FALSE), lat |-> 437, lon |-> 112]>> >>}

\* geocoding.py:44-67: the table built from the file's entries, keyed by
\* k.strip().lower()
TableOf(entries) ==
    [k \in {CityLower(CityStrip(entries[i].city)).name : i \in DOMAIN entries} |->
        LET i == CHOOSE j \in DOMAIN entries :
                    /\ CityLower(CityStrip(entries[j].city)).name = k
                    /\ \A l \in DOMAIN entries :
                          CityLower(CityStrip(entries[l].city)).name = k => l <= j
        IN  Coords(entries[i].lat, entries[i].lon)]

EmptyTable == [k \in {} |-> Coords(0, 0)]

\* The table in memory is returned only when it has entries
_load_local_city_coords_if_entries(memo, file) ==
    IF memo # <<>> /\ DOMAIN memo[1] # {} THEN memo[1]
    ELSE IF file # <<>> THEN TableOf(file[1])
    ELSE EmptyTable

\* geocoding.py:26-77: the table in memory if there is one, else the one read
\* from the file (the empty table when there is no file)
_load_local_city_coords(memo, file) ==
    IF memo # <<>> THEN memo[1]
    ELSE IF file # <<>> THEN TableOf(file[1])
    ELSE EmptyTable

\* The Retry-After header of a rate-limit response: absent, a number of
\* seconds, or an HTTP date
RetryAfters == {<<>>, <<Digits(1)>>, <<Txt("Wed, 21 Oct 2026 07:28:00 GMT")>>}

RATE_LIMIT_STATUSES == {429, 509}

\* What the provider can answer to one GET
ProviderResponses ==
    {[kind |-> "ok", status |-> 200, retry_after |-> <<>>],
     [kind |-> "empty", status |-> 200, retry_after |-> <<>>],
     [kind |-> "status", status |-> 500, retry_after |-> <<>>],
     [kind |-> "RequestError", status |-> 0, retry_after |-> <<>>]}
    \cup {[kind |-> "status", status |-> s, retry_after |-> ra] :
             s \in RATE_LIMIT_STATUSES, ra \in RetryAfters}

\* The first candidate of a non-empty answer for q
ProviderCandidate(q) ==
    IF q = "firenze" THEN [lat |-> DotDecimal(438), lon |-> DotDecimal(113)]
    ELSE [lat |-> DotDecimal(419), lon |-> DotDecimal(125)]

NoCache == [k \in {} |-> Coords(0, 0)]

\* cache[key] = value
CachePut(cache, key, value) ==
    [k \in DOMAIN cache \cup {key} |-> IF k = key THEN value ELSE cache[k]]

\* The entry of key has outlived the TTL
CacheDrop(cache, key) == [k \in DOMAIN cache \ {key} |-> cache[k]]

\* stop_after_attempt(3) and wait_exponential(), geocoding.py:86: the delay
\* after the n-th failed attempt is 2^(n-1) seconds
GEOCODE_ATTEMPTS == 3
wait_fixed(attempt) == 1
wait_exponential(attempt) == 2 ^ (attempt - 1)

IsRateLimit429(r) == r.kind = "status" /\ r.status = 429
IsRateLimit(r) == r.kind = "status" /\ r.status \in RATE_LIMIT_STATUSES

\* Lines 142-148: the handler sleeps before it looks at the local table
SleepsRetryAfter(r) ==
    IsRateLimit(r) /\ r.retry_after # <<>> /\ IntOk(r.retry_after[1])

\* The status of the HTTPException an attempt raises when it returns nothing:
\* 404 (line 121), the provider's status (lines 176-179), 503 (162, 193)
StatusRaisedUpstream(r) == r.status
StatusRaised(r) ==
    IF r.kind = "empty" THEN 404
    ELSE IF r.kind = "status" /\ ~IsRateLimit(r) THEN r.status
    ELSE 503

\* Lines 118-200, what one attempt makes of the response r for the name q:
\* value: the coordinates returned, if any; exc: the status raised otherwise;
\* fallback: the value is the local table's
geocode_outcome(q, r, local_coords) ==
    IF r.kind = "ok"
    THEN LET location == ProviderCandidate(q)
         IN  [value |-> <<Coords(PyFloat(location.lat), PyFloat(location.lon))>>,
              exc |-> 0, fallback |-> FALSE]
    ELSE IF (IsRateLimit(r) \/ r.kind = "RequestError") /\ q \in DOMAIN local_coords
    THEN [value |-> <<local_coords[q]>>, exc |-> 0, fallback |-> TRUE]
    ELSE [value |-> <<>>, exc |-> StatusRaised(r), fallback |-> FALSE]

\* Lines 158, 190, 199: the cache is written exactly where coordinates are
\* returned
CacheAfterAlways(cache, q, o) ==
    CachePut(cache, q, IF o.value # <<>> THEN o.value[1] ELSE Coords(0, 0))
\* Only the provider's coordinates are stored
CacheAfterProviderOnly(cache, q, o) ==
    IF o.value # <<>> /\ ~o.fallback THEN CachePut(cache, q, o.value[1]) ELSE cache
CacheAfter(cache, q, o) ==
    IF o.value # <<>> THEN CachePut(cache, q, o.value[1]) ELSE cache

\* Lines 151 and 183: only the two fallback handlers load the local table
LoadsTable(r) == IsRateLimit(r) \/ r.kind = "RequestError"

\* A geocode_city call.  pc: "idle" | "get" (the GET is awaited) | "retry_after"
\* (sleeping as Retry-After says) | "backoff" (sleeping between attempts) |
\* "done" | "cancelled"; q: the normalized name; attempt: the attempt under
\* way; contacts: the GETs sent; waits: the back-off delays slept; slept: the
\* Retry-After delays slept; last: the response of the last GET; returned /
\* exc: how the call ended (exc is the HTTPException's status code);
\* pending: the exception of the attempt that just failed; cache_at_start
\* (history): the cache when the call began; fallback (history): the call
\* answered from the local table.
NoCall ==
    [pc |-> "idle", city |-> City("", FALSE, FALSE), q |-> "", attempt |-> 0,
     contacts |-> 0, waits |-> <<>>, slept |-> <<>>, last |-> <<>>,
     returned |-> <<>>, exc |-> 0, pending |-> 0,
     cache_at_start |-> NoCache, fallback |-> FALSE]

GeoInit(files) ==
    /\ geocoding_cache = NoCache
    /\ citiesFile \in files
    /\ _LOCAL_CITY_COORDS = <<>>
    /\ call = NoCall

\* The start of an attempt, lines 106-117: a cached name is answered at once,
\* otherwise the GET is sent
Attempt(c) ==
    IF c.q \in DOMAIN geocoding_cache
    THEN [c EXCEPT !.pc = "done", !.returned = <<geocoding_cache[c.q]>>]
    ELSE [c EXCEPT !.pc = "get", !.contacts = @ + 1]

\* An attempt raised exc: tenacity retries whatever was raised while attempts
\* remain, then re-raises the exception of the last attempt (reraise=True)
Raise(c, exc) ==
    IF c.attempt < GEOCODE_ATTEMPTS
    THEN [c EXCEPT !.pc = "backoff", !.pending = exc]
    ELSE [c EXCEPT !.pc = "done", !.exc = exc]

\* geocode_city is called
GeocodeCity(city) ==
    /\ call.pc \in {"idle", "done", "cancelled"}
    /\ call' = Attempt([NoCall EXCEPT !.city = city,
                                      !.q = normalize_city_input(city),
                                      !.attempt = 1,
                                      !.cache_at_start = geocoding_cache])
    /\ UNCHANGED <<geocoding_cache, citiesFile, _LOCAL_CITY_COORDS>>
    /\ UNCHANGED <<search, nonSearchVars>>

\* The rest of the attempt once the response r is in (and slept on)
Finish(c, r) ==
    LET table == IF LoadsTable(r)
                 THEN <<_load_local_city_coords(_LOCAL_CITY_COORDS, citiesFile)>>
                 ELSE _LOCAL_CITY_COORDS
        o == geocode_outcome(c.q, r, IF table = <<>> THEN EmptyTable ELSE table[1])
    IN  /\ _LOCAL_CITY_COORDS' = table
        /\ geocoding_cache' = CacheAfter(geocoding_cache, c.q, o)
        /\ call' = IF o.value # <<>>
                   THEN [c EXCEPT !.pc = "done", !.returned = o.value,
                                  !.fallback = o.fallback]
                   ELSE Raise(c, o.exc)

\* The GET returns, lines 118-148
GeocodeResponse ==
    /\ call.pc = "get"
    /\ \E r \in ProviderResponses :
          IF SleepsRetryAfter(r)
          THEN /\ call' = [call EXCEPT !.pc = "retry_after", !.last = <<r>>,
                                       !.slept = Append(@, r.retry_after[1].t)]
               /\ UNCHANGED <<geocoding_cache, _LOCAL_CITY_COORDS>>
          ELSE Finish([call EXCEPT !.last = <<r>>], r)
    /\ UNCHANGED <<citiesFile, search, nonSearchVars>>

\* The Retry-After sleep is over, lines 150-168
GeocodeAfterSleep ==
    /\ call.pc = "retry_after"
    /\ Finish(call, call.last[1])
    /\ UNCHANGED <<citiesFile, search, nonSearchVars>>

\* The back-off sleep is over and the next attempt begins
GeocodeBackoff ==
    /\ call.pc = "backoff"
    /\ call' = Attempt([call EXCEPT !.waits = Append(@, wait_exponential(call.attempt)),
                                    !.attempt = @ + 1, !.pending = 0])
    /\ UNCHANGED <<geocoding_cache, citiesFile, _LOCAL_CITY_COORDS>>
    /\ UNCHANGED <<search, nonSearchVars>>

\* An hour has passed since an entry was stored (ttl=3600, line 17); a call
\* takes seconds, so none is under way meanwhile
CacheExpire ==
    /\ call.pc \in {"idle", "done", "cancelled"}
    /\ \E k \in DOMAIN geocoding_cache :
          geocoding_cache' = CacheDrop(geocoding_cache, k)
    /\ UNCHANGED <<citiesFile, _LOCAL_CITY_COORDS, call, search, nonSearchVars>>

\* A cities.json is put where the loader looks
CitiesFileAppears ==
    /\ call.pc \in {"idle", "done", "cancelled"}
    /\ citiesFile = <<>>
    /\ \E f \in CitiesFiles \ {<<>>} : citiesFile' = f
    /\ UNCHANGED <<geocoding_cache, _LOCAL_CITY_COORDS, call, search, nonSearchVars>>

----------------------------------------------------------------------------
(* The search endpoint, main.py:161-255 *)

\* The warnings of the handler, main.py:201, 207, 211, 231, 237, 241
TIMEOUT_GEOCODING == "Search timed out. Please try again later."
GEOCODING_UNAVAILABLE ==
    "City geocoding service is temporarily unavailable. Please try again later."
CITY_NOT_FOUND == "City not found. Please check the city name and try again."
TIMEOUT_FETCHING == "Search timed out while fetching station data. Please try again later."
STATIONS_UNAVAILABLE == "Gas station data is temporarily unavailable. Please try again later."
FETCH_FAILED == "Failed to fetch gas station data. Please try again later."

\* models.py:190-195
SearchResponse(stations, warning, error) ==
    [stations |-> stations, warning |-> warning, error |-> error]

GeocodeErrorResponseNotFound(exc) == SearchResponse(<<>>, <<CITY_NOT_FOUND>>, FALSE)

\* The except clauses of main.py:197-211 on what geocode_city raised.  With
\* reraise=True the decorator re-raises the HTTPException itself, whatever
\* its status, and never a RetryError.
GeocodeErrorResponse(exc) ==
    IF exc = "TimeoutError" THEN SearchResponse(<<>>, <<TIMEOUT_GEOCODING>>, TRUE)
    ELSE IF exc = "RetryError" THEN SearchResponse(<<>>, <<GEOCODING_UNAVAILABLE>>, TRUE)
    ELSE SearchResponse(<<>>, <<CITY_NOT_FOUND>>, FALSE)

\* The except clauses of main.py:227-241 on what fetch_gas_stations raised
FetchErrorResponse(exc) ==
    IF exc = "TimeoutError" THEN SearchResponse(<<>>, <<TIMEOUT_FETCHING>>, TRUE)
    ELSE IF exc = "RetryError" THEN SearchResponse(<<>>, <<STATIONS_UNAVAILABLE>>, TRUE)
    ELSE SearchResponse(<<>>, <<FETCH_FAILED>>, FALSE)

\* The cities a search asks for: those of the geocoder and a blank one
SearchCityInputs == CityInputs \cup {City("", FALSE, TRUE)}

\* A search request.  pc: "idle" | "geocoding" | "fetching" | "done";
\* response: the SearchResponse returned; raised: the status of the exception
\* that left the handler; fetch_attempt: the attempt of fetch_gas_stations
\* under way; fetch_pc: "" | "run" | "backoff" | "cancelled"; location: the
\* coordinates geocoding gave; geocode_exc (history): the status geocoding
\* raised; timed_out (history): the stage wait_for gave up on.
NoSearch ==
    [pc |-> "idle", response |-> <<>>, raised |-> 0, fetch_attempt |-> 0,
     fetch_pc |-> "", location |-> <<>>, geocode_exc |-> 0, timed_out |-> ""]

SearchParked ==
    /\ GeoInit({<<>>})
    /\ search = NoSearch

\* Lines 183-196: a blank city is refused, otherwise geocoding starts under
\* wait_for
SearchGasStations(city) ==
    /\ search.pc \in {"idle", "done"}
    /\ IF CityStrip(city).name = ""
       THEN /\ search' = [NoSearch EXCEPT !.pc = "done", !.raised = 400]
            /\ UNCHANGED call
       ELSE /\ search' = [NoSearch EXCEPT !.pc = "geocoding"]
            /\ call' = Attempt([NoCall EXCEPT !.city = CityStrip(city),
                                              !.q = normalize_city_input(CityStrip(city)),
                                              !.attempt = 1,
                                              !.cache_at_start = geocoding_cache])
    /\ UNCHANGED <<geocoding_cache, citiesFile, _LOCAL_CITY_COORDS, nonSearchVars>>

\* Lines 192-203: search_timeout_seconds pass while geocode_city is suspended;
\* wait_for cancels it and raises TimeoutError
SearchGeocodeTimeout ==
    /\ search.pc = "geocoding"
    /\ call.pc \in {"get", "retry_after", "backoff"}
    /\ call' = [call EXCEPT !.pc = "cancelled"]
    /\ search' = [search EXCEPT !.pc = "done", !.timed_out = "geocoding",
                                !.response = <<GeocodeErrorResponse("TimeoutError")>>]
    /\ UNCHANGED <<geocoding_cache, citiesFile, _LOCAL_CITY_COORDS, nonSearchVars>>

\* Lines 192-224: geocode_city is over; its exception is answered, or the
\* fetch starts under wait_for
SearchAfterGeocode ==
    /\ search.pc = "geocoding"
    /\ call.pc = "done"
    /\ search' = IF call.exc # 0
                 THEN [search EXCEPT !.pc = "done", !.geocode_exc = call.exc,
                                     !.response = <<GeocodeErrorResponse("HTTPException")>>]
                 ELSE [search EXCEPT !.pc = "fetching", !.location = call.returned,
                                     !.fetch_attempt = 1, !.fetch_pc = "run"]
    /\ UNCHANGED <<geocoding_cache, citiesFile, _LOCAL_CITY_COORDS, call, nonSearchVars>>

\* fuel_api.py:18-58 under its retry decorator, and main.py:238-255: an attempt
\* of fetch_gas_stations returns the payload, which is normalized and
\* answered, or raises HTTPException 503, which is retried while attempts
\* remain and answered after the last
SearchFetchAttempt ==
    /\ search.pc = "fetching"
    /\ search.fetch_pc = "run"
    /\ \E ok \in BOOLEAN :
          search' = IF ok
                    THEN [search EXCEPT !.pc = "done", !.fetch_pc = "",
                                        !.response = <<SearchResponse(<<"stations">>, <<>>, FALSE)>>]
                    ELSE IF search.fetch_attempt < GEOCODE_ATTEMPTS
                    THEN [search EXCEPT !.fetch_pc = "backoff"]
                    ELSE [search EXCEPT !.pc = "done", !.fetch_pc = "",
                                        !.response = <<FetchErrorResponse("HTTPException")>>]
    /\ UNCHANGED <<geocoding_cache, citiesFile, _LOCAL_CITY_COORDS, call, nonSearchVars>>

\* The back-off sleep of fetch_gas_stations is over
SearchFetchBackoff ==
    /\ search.pc = "fetching"
    /\ search.fetch_pc = "backoff"
    /\ search' = [search EXCEPT !.fetch_pc = "run", !.fetch_attempt = @ + 1]
    /\ UNCHANGED <<geocoding_cache, citiesFile, _LOCAL_CITY_COORDS, call, nonSearchVars>>

\* Lines 223-233: search_timeout_seconds pass while fetch_gas_stations is
\* suspended; wait_for cancels it and raises TimeoutError
SearchFetchTimeout ==
    /\ search.pc = "fetching"
    /\ search.fetch_pc \in {"run", "backoff"}
    /\ search' = [search EXCEPT !.pc = "done", !.fetch_pc = "cancelled",
                                !.timed_out = "fetching",
                                !.response = <<FetchErrorResponse("TimeoutError")>>]
    /\ UNCHANGED <<geocoding_cache, citiesFile, _LOCAL_CITY_COORDS, call, nonSearchVars>>

----------------------------------------------------------------------------
(* _save_csv_files step by step, prezzi_csv.py:457-516                     *)
(*                                                                         *)
(* A file of the target directory is [prefix, ts, part, texts, writers]:   *)
(* it is named <prefix><ts>.csv, with ".part" appended when part; texts    *)
(* are the payloads poured into it since it was last empty; writers is the *)
(* number of write_text calls that have opened it and not yet closed it.   *)
(* Each saver runs its file operations in worker threads (to_thread), so   *)
(* the operations of two savers interleave.                                *)

ANAG_PREFIX == "anagrafica_impianti_attivi_"
PREZZI_PREFIX == "prezzo_alle_8_"

Savers == {"s1", "s2"}

\* The payload pairs a saver is handed: <<registry text, price text>>
Payloads == {<<"anag-1", "prezzi-1">>, <<"anag-2", "prezzi-2">>}

\* settings.prezzi_keep_versions (models.py:83), as configured
KeepChoices == {1, 2}

\* A file holds one payload, whole
Complete(f) == f.writers = 0 /\ Cardinality(f.texts) = 1

Named(files, prefix, ts, part) ==
    {f \in files : f.prefix = prefix /\ f.ts = ts /\ f.part = part}

\* open(path, "w"): the file is created, or emptied if it exists
OpenForWrite(files, prefix, ts, part) ==
    LET old == Named(files, prefix, ts, part)
        new == IF old = {} THEN [prefix |-> prefix, ts |-> ts, part |-> part,
                                 texts |-> {}, writers |-> 1]
               ELSE LET f == CHOOSE g \in old : TRUE
                    IN  [f EXCEPT !.texts = IF f.writers = 0 THEN {} ELSE f.texts,
                                  !.writers = f.writers + 1]
    IN  (files \ old) \cup {new}

\* write and close on the file a writer holds, wherever it is named now
WriteAndClose(files, handle, text) ==
    LET old == Named(files, handle.prefix, handle.ts, handle.part)
    IN  IF old = {} THEN files
        ELSE LET f == CHOOSE g \in old : TRUE
             IN  (files \ old) \cup {[f EXCEPT !.texts = f.texts \cup {text},
                                               !.writers = f.writers - 1]}

\* Path.replace: the .part file takes the final name, replacing what had it
Replace(files, prefix, ts) ==
    LET src == Named(files, prefix, ts, TRUE)
        dst == Named(files, prefix, ts, FALSE)
        f == CHOOSE g \in src : TRUE
    IN  (files \ (src \cup dst)) \cup {[f EXCEPT !.part = FALSE]}

\* directory.glob(prefix + "*.csv"): the final names of a dataset
Glob(files, prefix) == {f \in files : f.prefix = prefix /\ ~f.part}

\* Lines 494-495: both datasets are cleaned up
CleanedUp(files, keep) ==
    {f \in files : f.part}
        \cup _cleanup_old_csvs(Glob(files, ANAG_PREFIX), keep)
        \cup _cleanup_old_csvs(Glob(files, PREZZI_PREFIX), keep)

\* A saver.  pc: where it stands; texts: the pair it saves; ts: the second it
\* read at line 480; handle: the file its write_text has opened; result:
\* "" | "saved" | "None"; before (history): the directory when its cleanup
\* began.
NoHandle == [prefix |-> "", ts |-> 0, part |-> FALSE]
IdleSaver ==
    [pc |-> "idle", texts |-> <<>>, ts |-> 0, handle |-> NoHandle, result |-> "",
     before |-> {}]

SaveParked ==
    /\ dirFiles = {}
    /\ saver = [s \in Savers |-> IdleSaver]
    /\ saveClock = 0
    /\ saves = 0
    /\ keep_versions = 1

SaveInit ==
    /\ dirFiles = {}
    /\ saver = [s \in Savers |-> IdleSaver]
    /\ saveClock = 0
    /\ saves = 0
    /\ keep_versions \in KeepChoices

\* A second passes
SaveTick ==
    /\ saveClock < MaxSaveClock
    /\ saveClock' = saveClock + 1
    /\ UNCHANGED <<dirFiles, saver, saves, keep_versions, nonSaveVars>>

\* Lines 462-486: the target directory is chosen and the names are made from
\* the current second; or no candidate directory can be used and None is
\* returned
SaveBegin(s) ==
    /\ saver[s].pc = "idle"
    /\ saves < MaxSaves
    /\ saves' = saves + 1
    /\ \/ \E texts \in Payloads :
             saver' = [saver EXCEPT ![s] =
                          [IdleSaver EXCEPT !.pc = "write_anag", !.texts = texts,
                                            !.ts = saveClock]]
       \/ saver' = [saver EXCEPT ![s] = [IdleSaver EXCEPT !.result = "None"]]
    /\ UNCHANGED <<dirFiles, saveClock, keep_versions, nonSaveVars>>

\* A rename or an unlink moves the files that open handles point to
Follow(h, prefix, ts) ==
    IF h.prefix = prefix /\ h.ts = ts /\ h.part THEN [h EXCEPT !.part = FALSE] ELSE h

\* Lines 488-489, first half of write_text: the .part file is opened
SaveOpenPart(s) ==
    /\ saver[s].pc \in {"write_anag", "write_prezzi"}
    /\ LET prefix == IF saver[s].pc = "write_anag" THEN ANAG_PREFIX ELSE PREZZI_PREFIX
       IN  /\ dirFiles' = OpenForWrite(dirFiles, prefix, saver[s].ts, TRUE)
           /\ saver' = [saver EXCEPT
                           ![s].handle = [prefix |-> prefix, ts |-> saver[s].ts, part |-> TRUE],
                           ![s].pc = IF saver[s].pc = "write_anag"
                                     THEN "writing_anag" ELSE "writing_prezzi"]
    /\ UNCHANGED <<saveClock, saves, keep_versions, nonSaveVars>>

\* Lines 488-489, second half of write_text: the text is written and the file
\* closed
SaveClosePart(s) ==
    /\ saver[s].pc \in {"writing_anag", "writing_prezzi"}
    /\ LET text == IF saver[s].pc = "writing_anag"
                   THEN saver[s].texts[1] ELSE saver[s].texts[2]
       IN  /\ dirFiles' = WriteAndClose(dirFiles, saver[s].handle, text)
           /\ saver' = [saver EXCEPT
                           ![s].handle = NoHandle,
                           ![s].pc = IF saver[s].pc = "writing_anag"
                                     THEN "write_prezzi" ELSE "replace_anag"]
    /\ UNCHANGED <<saveClock, saves, keep_versions, nonSaveVars>>

\* Lines 490-491 and 496-499: a .part file is renamed to its final name; when
\* it is no longer there, replace raises and None is returned
SaveReplace(s) ==
    /\ saver[s].pc \in {"replace_anag", "replace_prezzi"}
    /\ LET prefix == IF saver[s].pc = "replace_anag" THEN ANAG_PREFIX ELSE PREZZI_PREFIX
       IN  IF Named(dirFiles, prefix, saver[s].ts, TRUE) = {}
           THEN /\ saver' = [saver EXCEPT ![s].pc = "idle", ![s].result = "None"]
                /\ UNCHANGED dirFiles
           ELSE /\ dirFiles' = Replace(dirFiles, prefix, saver[s].ts)
                /\ saver' = [t \in Savers |->
                                IF t = s
                                THEN [saver[s] EXCEPT
                                         !.pc = IF saver[s].pc = "replace_anag"
                                                THEN "replace_prezzi" ELSE "cleanup"]
                                ELSE [saver[t] EXCEPT
                                         !.handle = Follow(@, prefix, saver[s].ts)]]
    /\ UNCHANGED <<saveClock, saves, keep_versions, nonSaveVars>>

\* Lines 492-501: both datasets are cleaned up and the directory is returned
SaveCleanup(s) ==
    /\ saver[s].pc = "cleanup"
    /\ dirFiles' = CleanedUp(dirFiles, keep_versions)
    /\ saver' = [t \in Savers |->
                    IF t = s
                    THEN [saver[s] EXCEPT !.pc = "idle", !.result = "saved",
                                          !.before = dirFiles]
                    ELSE IF Named(dirFiles', saver[t].handle.prefix, saver[t].handle.ts,
                                  saver[t].handle.part) = {}
                    THEN [saver[t] EXCEPT !.handle = NoHandle]
                    ELSE saver[t]]
    /\ UNCHANGED <<saveClock, saves, keep_versions, nonSaveVars>>

SaveNext ==
    \/ SaveTick
    \/ \E s \in Savers :
          \/ SaveBegin(s)
          \/ SaveOpenPart(s)
          \/ SaveClosePart(s)
          \/ SaveReplace(s)
          \/ SaveCleanup(s)

----------------------------------------------------------------------------
(* Inputs of the filter harness *)

\* The instant of the filter call: day 10 at 00:00 and at 12:00
FilterNows == {240, 252}

DateFresh    == [fmt |-> "dmy_hms", t |-> 239, off |-> 0]
DateOld      == [fmt |-> "dmy_hms", t |-> 71,  off |-> 0]
DateDayOnly  == [fmt |-> "dmy",     t |-> 80,  off |-> 0]
DateIsoTz    == [fmt |-> "iso_tz",  t |-> 73,  off |-> 2]
DateEmpty    == [fmt |-> "",        t |-> 0,   off |-> 0]
DateGarbage  == [fmt |-> "n/a",     t |-> 0,   off |-> 0]

PriceInfo(p, d) == [prezzo |-> p, self |-> TRUE, data |-> d]

\* The prezzi maps a station of the harness may carry
PrezziChoices ==
    { [k \in {"gasolio"} |-> PriceInfo(1600, DateFresh)],
      [k \in {"benzina"} |-> PriceInfo(1500, DateFresh)],
      [k \in {"benzina", "gasolio"} |->
          IF k = "benzina" THEN PriceInfo(1400, DateFresh) ELSE PriceInfo(1600, DateFresh)],
      [k \in {"benzina"} |-> PriceInfo(1300, DateOld)],
      [k \in {"benzina"} |-> PriceInfo(1400, DateDayOnly)],
      [k \in {"benzina"} |-> PriceInfo(1450, DateIsoTz)],
      [k \in {"benzina"} |-> PriceInfo(1500, DateEmpty)],
      [k \in {"benzina"} |-> PriceInfo(1500, DateGarbage)] }

\* (lat, lon): the search centre, about 11 km north of it, (0,0), and None
\* (a null in a cache file; the parser never produces it)
CoordChoices ==
    { <<<<437>>, <<112>>>>, <<<<438>>, <<112>>>>, <<<<0>>, <<0>>>>, <<<<>>, <<>>>> }

ParamChoices ==
    { <<>> } \cup
    { <<[latitude |-> 437, longitude |-> 112, distance |-> d, fuel |-> f, results |-> n]>> :
        d \in {10, 6000}, f \in {"benzina", "Diesel"}, n \in {1, 5} }

NoFilterOut ==
    [raised |-> FALSE, stations |-> <<>>, excluded_no_price |-> 0, excluded_stale |-> 0,
     excluded_invalid_coords |-> 0, excluded_out_of_distance |-> 0]

----------------------------------------------------------------------------
(* parse_and_normalize_stations, fuel_api.py:61-119                         *)
(*                                                                         *)
(* A value of a payload entry is [ty, v, s]: ty is "missing" (the key is   *)
(* absent), "none", "float" (the float v), "str" (the string s) or "list"  *)
(* (a non-empty list).  An entry is [isdict, prezzo, latitudine,           *)
(* longitudine, indirizzo]; a payload is [kind, items], kind "list",       *)
(* "dict" (items are its values) or "other".                               *)

MAX_RESULTS_COUNT == 20

Missing == [ty |-> "missing", v |-> 0, s |-> Txt("")]
PyNone == [ty |-> "none", v |-> 0, s |-> Txt("")]
Float(v) == [ty |-> "float", v |-> v, s |-> Txt("")]
Str(s) == [ty |-> "str", v |-> 0, s |-> s]
NonEmptyList == [ty |-> "list", v |-> 0, s |-> Txt("")]

\* bool(x): None, 0.0 and "" are falsy
Truthy(x) ==
    CASE x.ty \in {"missing", "none"} -> FALSE
      [] x.ty = "float" -> x.v # 0
      [] x.ty = "str"   -> x.s.fmt # ""
      [] OTHER          -> TRUE

\* float(x): "" when it returns, else the exception it raises.  A string must
\* spell a number with a dot (or none) as decimal separator.
FloatRaises(x) ==
    CASE x.ty = "float" -> ""
      [] x.ty = "str"   -> IF x.s.fmt \in {"dot", "int"} THEN "" ELSE "ValueError"
      [] OTHER          -> "TypeError"

FloatValue(x) == IF x.ty = "float" THEN x.v ELSE x.s.t

\* data.get(key, 0.0) for the price (line 94): only a missing key is defaulted,
\* and None is replaced on line 95
PrezzoArg(x) == IF x.ty \in {"missing", "none"} THEN Float(0) ELSE x

\* data.get(key) or 0.0 (lines 96-97)
CoordArg(x) == IF Truthy(x) THEN x ELSE Float(0)

\* No coordinates are taken for invalid
IsOriginNever(lat, lon) == FALSE

\* Line 99
IsOrigin(lat, lon) == lat = 0 /\ lon = 0

\* The exceptions the loop's except clause catches (line 112)
CaughtBySkip == {"ValueError", "TypeError"}

\* One pass of the loop body (lines 89-115).  kind: "station", "skipped", or
\* "raised" when an exception leaves the loop
NormalizeEntry(data, idx, fuel_type) ==
    IF ~data.isdict THEN [kind |-> "skipped", exc |-> "", station |-> <<>>]
    ELSE LET p    == PrezzoArg(data.prezzo)
             la   == CoordArg(data.latitudine)
             lo   == CoordArg(data.longitudine)
             excs == <<FloatRaises(p), FloatRaises(la), FloatRaises(lo)>>
             bad  == {i \in 1..3 : excs[i] # ""}
         IN  IF bad # {}
             THEN LET exc == excs[CHOOSE i \in bad : \A k \in bad : i <= k]
                  IN  [kind |-> IF exc \in CaughtBySkip THEN "skipped" ELSE "raised",
                       exc |-> exc, station |-> <<>>]
             ELSE IF IsOrigin(FloatValue(la), FloatValue(lo))
             THEN [kind |-> "skipped", exc |-> "", station |-> <<>>]
             ELSE [kind |-> "station", exc |-> "",
                   station |-> <<[id          |-> idx,
                                  address     |-> IF Truthy(data.indirizzo)
                                                  THEN data.indirizzo.s ELSE Txt(""),
                                  latitude    |-> FloatValue(la),
                                  longitude   |-> FloatValue(lo),
                                  fuel_prices |-> <<[type |-> fuel_type,
                                                     price |-> FloatValue(p)]>>]>>]

\* The loop's verdicts, entry by entry; enumerate() counts from 0
Verdicts(items, fuel_type) ==
    [i \in DOMAIN items |-> NormalizeEntry(items[i], i - 1, fuel_type)]

RECURSIVE StationsOf(_)
StationsOf(verdicts) ==
    IF verdicts = <<>> THEN <<>>
    ELSE (IF Head(verdicts).kind = "station" THEN Head(verdicts).station ELSE <<>>)
            \o StationsOf(Tail(verdicts))

\* stations.sort(key=price), line 116: stable
RECURSIVE InsertByPrice(_, _)
InsertByPrice(sorted, s) ==
    IF sorted = <<>> THEN <<s>>
    ELSE IF ~FloatLt(s.fuel_prices[1].price, Head(sorted).fuel_prices[1].price)
         THEN <<Head(sorted)>> \o InsertByPrice(Tail(sorted), s)
         ELSE <<s>> \o sorted

RECURSIVE SortByPrice(_)
SortByPrice(seq) ==
    IF seq = <<>> THEN <<>>
    ELSE InsertByPrice(SortByPrice(SubSeq(seq, 1, Len(seq) - 1)), seq[Len(seq)])

\* fuel_api.py:61-119.  normalized (history): the length of stations before
\* the slice of line 119
parse_and_normalize_stations(payload, fuel_type, results_limit) ==
    IF payload.kind \notin {"list", "dict"}
    THEN [raised |-> "", stations |-> <<>>, skipped_count |-> 0, normalized |-> 0]
    ELSE LET verdicts == Verdicts(payload.items, fuel_type)
             raising  == {i \in DOMAIN verdicts : verdicts[i].kind = "raised"}
             stations == StationsOf(verdicts)
             limit    == Max(1, Min(results_limit, MAX_RESULTS_COUNT))
         IN  IF raising # {}
             THEN [raised |-> verdicts[CHOOSE i \in raising : \A k \in raising : i <= k].exc,
                   stations |-> <<>>, skipped_count |-> 0, normalized |-> 0]
             ELSE [raised |-> "",
                   stations |-> Slice(SortByPrice(stations), limit),
                   skipped_count |->
                       Cardinality({i \in DOMAIN verdicts : verdicts[i].kind = "skipped"}),
                   normalized |-> Len(stations)]

NoNormalized == [raised |-> "", stations |-> <<>>, skipped_count |-> 0, normalized |-> 0]

NoNormalize == [pc |-> "build", results_limit |-> 0, out |-> NoNormalized]

\* The normalizer harness at rest
NormalizeParked ==
    /\ stations_payload = [kind |-> "list", items |-> <<>>]
    /\ normalizing = NoNormalize

NoDetect == [pc |-> "build", sample |-> <<>>, sniffed |-> <<>>, out |-> ""]

\* The detection harness at rest
DetectParked == detecting = NoDetect

\* The parser harness at rest
NoParse ==
    [pc |-> "build", force |-> <<>>, combined |-> <<>>, fuel |-> "", out |-> NoFilterOut,
     file |-> NoFile, loaded |-> <<>>]

ParseParked ==
    /\ csvText = [anag |-> PipeText(<<>>), prezzi |-> PipeText(<<>>)]
    /\ parsing = NoParse

----------------------------------------------------------------------------
(* The filter harness: a dataset is built, then filtered once *)

FilterInit ==
    /\ combined = <<>>
    /\ phase = "build"
    /\ filterIn = [params |-> <<>>, now |-> 240]
    /\ filterOut = NoFilterOut
    /\ PipelineParked
    /\ SearchParked
    /\ SaveParked
    /\ ParseParked
    /\ NormalizeParked
    /\ DetectParked

\* The dataset holds one more station (from the parser or from the cache file)
AddStation ==
    /\ phase = "build"
    /\ Len(combined) < MaxStations
    /\ \E c \in CoordChoices, pz \in PrezziChoices :
          combined' = Append(combined,
                             [id          |-> Len(combined) + 1,
                              gestore     |-> "GestoreX",
                              indirizzo   |-> Len(combined) + 1,
                              latitudine  |-> c[1],
                              longitudine |-> c[2],
                              prezzi      |-> pz])
    /\ UNCHANGED <<phase, filterIn, filterOut>>
    /\ UNCHANGED nonFilterVars

\* _filter_and_transform_combined(combined, params) at instant now
RunFilter ==
    /\ phase = "build"
    /\ \E p \in ParamChoices, now \in FilterNows :
          /\ filterIn' = [params |-> p, now |-> now]
          /\ filterOut' = _filter_and_transform_combined(combined, p, now)
    /\ phase' = "filtered"
    /\ UNCHANGED combined
    /\ UNCHANGED nonFilterVars

FilterNext == AddStation \/ RunFilter

SpecFilter == FilterInit /\ [][FilterNext]_vars

----------------------------------------------------------------------------
(* The pipeline: queries, the reload task and the preload task interleave at
   their awaits *)

FilterParked ==
    /\ combined = <<>>
    /\ phase = "build"
    /\ filterIn = [params |-> <<>>, now |-> 240]
    /\ filterOut = NoFilterOut

\* Preloading is switched off: queries and the reload task
Init == PipelineInit(FALSE) /\ FilterParked /\ SearchParked /\ SaveParked /\ ParseParked
        /\ NormalizeParked
        /\ DetectParked

Next ==
    \/ Tick
    \/ ReloadCsv
    \/ \E t \in Fetchers :
          \/ QueryIsCacheFresh(t)
          \/ QueryLoadCached(t)
          \/ FetchCsvs(t)
          \/ WriteJsonOpen(t)
          \/ WriteJsonClose(t)
          \/ SaveCsvFiles(t)
          \/ QueryReloadLocal(t)
          \/ QueryFilter(t)
          \/ QueryReturn(t)

Spec == Init /\ [][Next]_vars

\* Startup with preloading switched on: the preload task and the queries
StartupInit == PipelineInit(TRUE) /\ FilterParked /\ SearchParked /\ SaveParked /\ ParseParked
               /\ NormalizeParked
               /\ DetectParked

StartupNext ==
    \/ PreloadLocalCsvCache
    \/ \E t \in Queries \cup {"preload"} :
          \/ QueryIsCacheFresh(t)
          \/ QueryLoadCached(t)
          \/ FetchCsvs(t)
          \/ WriteJsonOpen(t)
          \/ WriteJsonClose(t)
          \/ SaveCsvFiles(t)
          \/ QueryReloadLocal(t)
          \/ QueryFilter(t)
          \/ QueryReturn(t)

SpecStartup == StartupInit /\ [][StartupNext]_vars

----------------------------------------------------------------------------
(* Snapshot saving on its own: two savers, as a query and a reload (or two
   queries) save what they fetched *)

SaveSpecInit ==
    /\ SaveInit
    /\ PipelineParked
    /\ FilterParked
    /\ SearchParked
    /\ ParseParked
    /\ NormalizeParked
    /\ DetectParked

SpecSave == SaveSpecInit /\ [][SaveNext]_vars

----------------------------------------------------------------------------
(* Reloads on their own: reload_csv and the task it starts *)

ReloadStep ==
    \/ FetchCsvs("reload")
    \/ WriteJsonOpen("reload")
    \/ WriteJsonClose("reload")
    \/ SaveCsvFiles("reload")

ReloadNext ==
    \/ Tick
    \/ ReloadCsv
    \/ FetchCsvs("reload")
    \/ WriteJsonOpen("reload")
    \/ WriteJsonClose("reload")
    \/ SaveCsvFiles("reload")

\* The event loop runs the task that reload_csv created
SpecReload == Init /\ [][ReloadNext]_vars /\ WF_vars(ReloadStep)

----------------------------------------------------------------------------
(* The geocoder called on its own: calls follow one another, entries expire
   and a cities.json can appear between calls *)

GeoSpecInit ==
    /\ GeoInit(CitiesFiles)
    /\ search = NoSearch
    /\ PipelineParked
    /\ FilterParked
    /\ SaveParked
    /\ ParseParked
    /\ NormalizeParked
    /\ DetectParked

GeoStep == GeocodeResponse \/ GeocodeAfterSleep \/ GeocodeBackoff

GeoNext ==
    \/ \E city \in CityInputs : GeocodeCity(city)
    \/ GeocodeResponse
    \/ GeocodeAfterSleep
    \/ GeocodeBackoff
    \/ CacheExpire
    \/ CitiesFileAppears

\* The event loop resumes a call whose GET has returned or whose sleep is over
SpecGeo == GeoSpecInit /\ [][GeoNext]_vars /\ WF_vars(GeoStep)

----------------------------------------------------------------------------
(* Searches: one request at a time, its geocoding and its fetch *)

SearchInit ==
    /\ GeoInit(CitiesFiles)
    /\ search = NoSearch
    /\ PipelineParked
    /\ FilterParked
    /\ SaveParked
    /\ ParseParked
    /\ NormalizeParked
    /\ DetectParked

SearchNext ==
    \/ \E city \in SearchCityInputs : SearchGasStations(city)
    \/ GeocodeResponse
    \/ GeocodeAfterSleep
    \/ GeocodeBackoff
    \/ SearchGeocodeTimeout
    \/ SearchAfterGeocode
    \/ SearchFetchAttempt
    \/ SearchFetchBackoff
    \/ SearchFetchTimeout
    \/ CacheExpire

SpecSearch == SearchInit /\ [][SearchNext]_vars

----------------------------------------------------------------------------
(* The parser harness: a registry text and a price text are written row by
   row, then parsed and merged once (_parse_and_combine_sync), and the merged
   dataset is queried once (_filter_and_transform_combined) *)

Separators == {";", "|"}

\* settings.prezzi_csv_delimiter: "auto" (None is passed), ";" or "|"
ForceChoices == {<<>>, <<";">>, <<"|">>}

QueryFuels == {"benzina", "diesel", "gasolio", "gpl"}

\* The id fields a row may carry: "1", "2", "0", a word, nothing
IdFields == {Digits(1), Digits(2), Digits(0), Txt("abc"), Txt("")}

AnagRowChoices == {[AnagLine(1, 437, 112) EXCEPT ![1] = f] : f \in IdFields}

PrezziRowOf(idf, fuel, pricef, self) ==
    <<idf, Txt(fuel), pricef, Digits(self), DateToday>>

\* Price rows: prices of station 1 for several spellings of the kinds, equal
\* and unequal prices, prices that are no number ("n/a", "", "nan"), rows of
\* other ids and a row that is too short
PrezziRowChoices ==
    { PrezziRowOf(Digits(1), "benzina senza piombo", Decimal(1500), 1),
      PrezziRowOf(Digits(1), "Benzina", Decimal(1400), 0),
      PrezziRowOf(Digits(1), "benzina", Decimal(1500), 0),
      PrezziRowOf(Digits(1), "benzina", Txt("n/a"), 1),
      PrezziRowOf(Digits(1), "benzina", Txt(""), 1),
      PrezziRowOf(Digits(1), "benzina", Txt("nan"), 1),
      PrezziRowOf(Digits(1), "diesel", Decimal(1600), 1),
      PrezziRowOf(Digits(1), "Blue Diesel", Decimal(1550), 1),
      PrezziRowOf(Digits(1), "gasolio", Decimal(1700), 0),
      PrezziRowOf(Digits(1), "GPL", Decimal(700), 1),
      PrezziRowOf(Digits(1), "metano", Decimal(1300), 1),
      PrezziRowOf(Digits(2), "benzina", Decimal(1450), 1),
      PrezziRowOf(Digits(3), "benzina", Decimal(1000), 1),
      PrezziRowOf(Digits(0), "benzina", Decimal(1200), 1),
      PrezziRowOf(Txt("abc"), "benzina", Decimal(1100), 1),
      <<Digits(1), Txt("benzina"), Decimal(900), Digits(1)>> }

FuelQuery(fuel) == <<[QueryParams[1] EXCEPT !.fuel = fuel]>>

ParseInit ==
    /\ \E sep \in Separators :
          csvText = [anag   |-> [sep |-> sep, lines |-> <<AnagHeader>>],
                     prezzi |-> [sep |-> sep, lines |-> <<PrezziHeader>>]]
    /\ parsing = NoParse

\* The rows after the header
DataRows(text) == Tail(text.lines)

AppendAnagRow ==
    /\ parsing.pc = "build"
    /\ Len(DataRows(csvText.anag)) < MaxAnagRows
    /\ \E row \in AnagRowChoices :
          csvText' = [csvText EXCEPT !.anag.lines = Append(@, row)]
    /\ UNCHANGED parsing
    /\ UNCHANGED nonParseVars

AppendPrezziRow ==
    /\ parsing.pc = "build"
    /\ Len(DataRows(csvText.prezzi)) < MaxPrezziRows
    /\ \E row \in PrezziRowChoices :
          csvText' = [csvText EXCEPT !.prezzi.lines = Append(@, row)]
    /\ UNCHANGED parsing
    /\ UNCHANGED nonParseVars

\* fetch_and_combine_csv_data lines 314-317
ParseAndCombine ==
    /\ parsing.pc = "build"
    /\ \E force \in ForceChoices :
          parsing' = [parsing EXCEPT
                         !.pc = "parsed",
                         !.force = force,
                         !.combined = _parse_and_combine_sync(csvText.anag, csvText.prezzi,
                                                              force)]
    /\ UNCHANGED csvText
    /\ UNCHANGED nonParseVars

\* fetch_and_combine_csv_data line 331
ParseQuery ==
    /\ parsing.pc = "parsed"
    /\ \E fuel \in QueryFuels :
          parsing' = [parsing EXCEPT
                         !.pc = "queried",
                         !.fuel = fuel,
                         !.out = _filter_and_transform_combined(parsing.combined,
                                                                FuelQuery(fuel), Now)]
    /\ UNCHANGED csvText
    /\ UNCHANGED nonParseVars

\* _write_json_file(settings.prezzi_cache_path, combined), line 318
ParseStore ==
    /\ parsing.pc = "parsed"
    /\ parsing' = [parsing EXCEPT !.pc = "stored",
                                  !.file = _write_json_file(parsing.combined, Now)]
    /\ UNCHANGED csvText
    /\ UNCHANGED nonParseVars

\* _load_cached_combined(settings.prezzi_cache_path), line 298
ParseLoad ==
    /\ parsing.pc = "stored"
    /\ parsing' = [parsing EXCEPT !.pc = "loaded",
                                  !.loaded = _load_cached_combined(parsing.file)]
    /\ UNCHANGED csvText
    /\ UNCHANGED nonParseVars

ParseSpecInit ==
    /\ ParseInit
    /\ PipelineParked
    /\ FilterParked
    /\ SearchParked
    /\ SaveParked
    /\ NormalizeParked
    /\ DetectParked

ParseNext ==
    \/ AppendAnagRow
    \/ AppendPrezziRow
    \/ ParseAndCombine
    \/ ParseQuery
    \/ ParseStore
    \/ ParseLoad

SpecParse == ParseSpecInit /\ [][ParseNext]_vars

----------------------------------------------------------------------------
(* The normalizer harness: a payload is put together entry by entry and
   handed to parse_and_normalize_stations once *)

Entry(prezzo, lat, lon) ==
    [isdict |-> TRUE, prezzo |-> prezzo, latitudine |-> lat, longitudine |-> lon,
     indirizzo |-> Str(Txt("Via Roma 1"))]

\* An entry that is no dict (a string, say)
NonDict ==
    [isdict |-> FALSE, prezzo |-> Missing, latitudine |-> Missing, longitudine |-> Missing,
     indirizzo |-> Missing]

\* Entries as the pipeline returns them (floats), as test_fuel_api.py spells
\* them (strings), and damaged ones: coordinates (0,0), missing or None, a
\* price or coordinate that is no number, a comma decimal, a list
EntryChoices ==
    { Entry(Float(1600), Float(437), Float(112)),
      Entry(Str(DotDecimal(1500)), Str(DotDecimal(438)), Str(DotDecimal(113))),
      Entry(Str(DotDecimal(1500)), Str(DotDecimal(0)), Str(DotDecimal(0))),
      Entry(Float(1400), Float(0), Float(0)),
      Entry(Float(1450), Missing, Missing),
      Entry(Float(1450), PyNone, Float(112)),
      Entry(Str(Txt("n/a")), Str(DotDecimal(437)), Str(DotDecimal(112))),
      Entry(Float(1300), Str(Txt("abc")), Float(112)),
      Entry(Str(Decimal(1550)), Float(437), Float(112)),
      Entry(PyNone, Float(437), Float(112)),
      Entry(Missing, Float(437), Str(Txt(""))),
      Entry(NonEmptyList, Float(437), Float(112)),
      NonDict }

PayloadKinds == {"list", "dict", "other"}

LimitChoices == {0, 1, 2, 5}

NormalizeInit ==
    /\ \E kind \in PayloadKinds : stations_payload = [kind |-> kind, items |-> <<>>]
    /\ normalizing = NoNormalize

AddEntry ==
    /\ normalizing.pc = "build"
    /\ stations_payload.kind # "other"
    /\ Len(stations_payload.items) < MaxPayload
    /\ \E e \in EntryChoices :
          stations_payload' = [stations_payload EXCEPT !.items = Append(@, e)]
    /\ UNCHANGED normalizing
    /\ UNCHANGED nonNormalizeVars

ParseAndNormalizeStations ==
    /\ normalizing.pc = "build"
    /\ \E limit \in LimitChoices :
          normalizing' = [pc |-> "done", results_limit |-> limit,
                          out |-> parse_and_normalize_stations(stations_payload, "benzina",
                                                               limit)]
    /\ UNCHANGED stations_payload
    /\ UNCHANGED nonNormalizeVars

----------------------------------------------------------------------------
(* The detection harness: the lines of a text are written, then
   _detect_delimiter is called on it once *)

\* The lines a text can have: a blank one, or one that each candidate splits
\* into 1..MaxCols pieces
LineChoices ==
    {SampleLine(TRUE, [d \in Range(DelimiterCandidates) |-> 1])}
        \cup {SampleLine(FALSE, c) : c \in [Range(DelimiterCandidates) -> 1..MaxCols]}

\* What csv.Sniffer().sniff(sample, delimiters="|;,\t") can make of the first
\* five non-blank lines: csv.Error, or one of the given delimiters that occurs
\* in them
SniffOutcomes(sample) ==
    LET lines == NonBlank(sample)
    IN  {<<>>} \cup {<<d>> : d \in {c \in Range(DelimiterCandidates) :
                                     \E i \in DOMAIN lines : i <= 5 /\ lines[i].cols[c] > 1}}

DetectInit ==
    /\ detecting = NoDetect
    /\ PipelineParked
    /\ FilterParked
    /\ SearchParked
    /\ SaveParked
    /\ ParseParked
    /\ NormalizeParked

\* The text has one more line
AppendLine ==
    /\ detecting.pc = "build"
    /\ Len(detecting.sample) < MaxSampleLines
    /\ \E ln \in LineChoices :
          detecting' = [detecting EXCEPT !.sample = Append(@, ln)]
    /\ UNCHANGED nonDetectVars

\* _detect_delimiter(csv_text)
DetectDelimiter ==
    /\ detecting.pc = "build"
    /\ \E sniffed \in SniffOutcomes(detecting.sample) :
          detecting' = [detecting EXCEPT
                           !.pc = "detected",
                           !.sniffed = sniffed,
                           !.out = _detect_delimiter(detecting.sample, sniffed)]
    /\ UNCHANGED nonDetectVars

DetectNext == AppendLine \/ DetectDelimiter

SpecDetect == DetectInit /\ [][DetectNext]_vars

NormalizeSpecInit ==
    /\ NormalizeInit
    /\ PipelineParked
    /\ FilterParked
    /\ SearchParked
    /\ SaveParked
    /\ ParseParked
    /\ DetectParked

NormalizeNext ==
    \/ AddEntry
    \/ ParseAndNormalizeStations

SpecNormalize == NormalizeSpecInit /\ [][NormalizeNext]_vars

----------------------------------------------------------------------------
(* Claims about the filter, checked under SpecFilter *)

FilterReturned == phase = "filtered" /\ ~filterOut.raised

\* The dataset station a returned entry was made from
SourceOf(r) ==
    {j \in DOMAIN combined : combined[j].indirizzo = r.indirizzo}

\* The requested fuel kind, normalised, of the last filter call
AskedFuel == IF filterIn.params = <<>> THEN "" ELSE normalize_fuel_type(filterIn.params[1].fuel)

\* A date string that spells an instant inside the recency window at instant now
SpellsRecentInstant(ds, now) ==
    /\ ds.fmt \in {"dmy_hms", "dmy_hm", "dmy", "iso", "iso_tz"}
    /\ LET utc == IF ds.fmt = "dmy" THEN (ds.t \div 24) * 24
                  ELSE IF ds.fmt = "iso_tz" THEN ds.t - ds.off ELSE ds.t
       IN  now - utc <= 24 * 7

\* C1: every station the filter returns has, in the dataset, a price entry under
\* the requested normalised fuel kind whose observation timestamp is present and
\* not older than 7 days at filter time.
C1_ReturnedPriceIsRecent ==
    FilterReturned =>
        \A i \in DOMAIN filterOut.stations :
            LET r == filterOut.stations[i]
            IN  /\ SourceOf(r) # {}
                /\ \A j \in SourceOf(r) :
                      /\ AskedFuel \in DOMAIN combined[j].prezzi
                      /\ combined[j].prezzi[AskedFuel].prezzo = r.prezzo
                      /\ combined[j].prezzi[AskedFuel].data = r.data
                      /\ SpellsRecentInstant(r.data, filterIn.now)

\* C1 witness: a station priced on the last day of the window is returned while a
\* station of the same dataset with an older price is not.
C1_Witness ==
    /\ FilterReturned
    /\ Len(combined) = 2
    /\ Len(filterOut.stations) = 1
    /\ filterOut.stations[1].data = DateDayOnly
    /\ filterOut.excluded_stale = 1

\* C2 (as claimed): the filter returns no station whose coordinates are (0,0) and
\* no station whose price for the requested fuel is older than the recency
\* window, whatever the radius and the search centre.
C2_ZeroCoordsAndStaleExcluded ==
    FilterReturned =>
        \A i \in DOMAIN filterOut.stations :
            LET r == filterOut.stations[i]
            IN  /\ ~(r.latitudine = 0 /\ r.longitudine = 0)
                /\ SpellsRecentInstant(r.data, filterIn.now)

\* C3: with search coordinates supplied, every returned station lies within the
\* radius of the search point; a station that passes the earlier checks and lies
\* farther is not returned and is counted as out-of-range.
FartherThanRadius(station) ==
    /\ station.latitudine # <<>>
    /\ station.longitudine # <<>>
    /\ _haversine_km(filterIn.params[1].latitude, filterIn.params[1].longitude,
                     station.latitudine[1], station.longitudine[1])
         > filterIn.params[1].distance * 10^5

PassesEarlierChecks(station) ==
    /\ AskedFuel \in DOMAIN station.prezzi
    /\ SpellsRecentInstant(station.prezzi[AskedFuel].data, filterIn.now)
    /\ station.latitudine # <<>>
    /\ station.longitudine # <<>>

Survivors ==
    {j \in DOMAIN combined :
        /\ PassesEarlierChecks(combined[j])
        /\ filterIn.params # <<>>
        /\ ~FartherThanRadius(combined[j])}

ReturnedSources == UNION {SourceOf(filterOut.stations[i]) : i \in DOMAIN filterOut.stations}

C10_FilterNeverRaises ==
    phase = "filtered" =>
        /\ ~filterOut.raised
        /\ filterOut.excluded_stale =
              Cardinality({j \in DOMAIN combined :
                              /\ AskedFuel \in DOMAIN combined[j].prezzi
                              /\ ~SpellsRecentInstant(combined[j].prezzi[AskedFuel].data,
                                                      filterIn.now)})

----------------------------------------------------------------------------
(* Claims about the cache and the fetch *)

BothEndpoints == {"anagrafica", "prezzi"}

\* What the filter makes of a dataset for the pipeline's query, now
AnswerFrom(dataset) == _filter_and_transform_combined(dataset, QueryParams, Now).stations

SawFreshEmptyCache(t) ==
    /\ task[t].fresh
    /\ task[t].cached = << <<>> >>

SawFreshNonEmptyCache(t) ==
    /\ task[t].fresh
    /\ task[t].cached # <<>>
    /\ Len(task[t].cached[1]) > 0

\* C5: a query that found the cache file fresh but holding an empty dataset is
\* not answered from it: both CSV endpoints are requested and the answer is
\* the filter's result on the dataset parsed from the fetched texts.
C5_EmptyCacheIsRefetched ==
    \A t \in Queries :
        (task[t].pc = "done" /\ SawFreshEmptyCache(t)) =>
            /\ task[t].reqs = BothEndpoints
            /\ task[t].origin # "cache"
            /\ task[t].err = "" =>
                  /\ task[t].combined = <<ParseTexts(task[t].texts, force_delimiter)>>
                  /\ task[t].result = AnswerFrom(task[t].combined[1])
            /\ task[t].remote = "ok" =>
                  /\ task[t].err = ""
                  /\ \E v \in RemoteVersions : task[t].texts = <<v, v>>

C5_Witness ==
    \E t \in Queries :
        /\ task[t].pc = "done"
        /\ SawFreshEmptyCache(t)
        /\ task[t].remote = "ok"
        /\ Len(task[t].result) = 2

\* C6 (as stated): after a query has fetched and stored a non-empty dataset, a
\* later query that starts within the freshness window of that store makes no
\* request to a CSV endpoint.
C6_NoRequestWithinWindow ==
    \A t \in Queries : task[t].windowed => task[t].reqs = {}

\* C6 (amended): a query that finds the cache file fresh and reads a non-empty
\* dataset from it is answered from that dataset and requests neither CSV
\* endpoint; this holds as well of a query within the freshness window of an
\* earlier store.
C6_FreshNonEmptyCacheAnswers ==
    \A t \in Queries :
        (task[t].pc \in {"filter", "done"} /\ SawFreshNonEmptyCache(t)) =>
            /\ task[t].reqs = {}
            /\ task[t].origin = "cache"
            /\ task[t].combined = task[t].cached
            /\ task[t].pc = "done" => task[t].result = AnswerFrom(task[t].cached[1])

C6_Witness ==
    \E t \in Queries :
        /\ task[t].pc = "done"
        /\ task[t].windowed
        /\ SawFreshNonEmptyCache(t)
        /\ task[t].reqs = {}
        /\ Len(task[t].result) > 0

SnapshotDirs ==
    {i \in DOMAIN _candidate_local_csv_dirs :
        /\ snapshots[_candidate_local_csv_dirs[i]].anag # {}
        /\ snapshots[_candidate_local_csv_dirs[i]].prezzi # {}}

Newest(files) == CHOOSE f \in files : \A g \in files : g.ts <= f.ts

LatestSnapshotPair ==
    LET d == _candidate_local_csv_dirs[CHOOSE i \in SnapshotDirs : \A k \in SnapshotDirs : i <= k]
    IN  <<Newest(snapshots[d].anag).text, Newest(snapshots[d].prezzi).text>>

\* C8: once a remotely fetched snapshot pair has been saved, a fetch whose GETs
\* fail does not raise: it returns the texts of the most recent snapshot pair.
C8_FallbackToLatestSnapshot ==
    [][\A t \in Queries :
          (/\ task[t].pc = "fetch"
           /\ task'[t].pc # "fetch"
           /\ task'[t].remote = "failed"
           /\ SnapshotDirs # {}
           /\ LatestSnapshotPair[1] \in RemoteVersions) =>
              /\ task'[t].err = ""
              /\ task'[t].texts = LatestSnapshotPair]_vars

\* C9: no query reads the cache file while its text is part-written.
C9_NoPartialCacheRead ==
    \A t \in Queries : ~task[t].read_partial

----------------------------------------------------------------------------
(* Claims about the geocoder *)

\* The last response the call under way has received
LastResponse == IF call.last = <<>> THEN "none" ELSE call.last[1].kind

GeocodeReturned == call.pc = "done" /\ call.returned # <<>>
GeocodeRaised == call.pc = "done" /\ call.exc # 0

\* C11: once the provider has answered a call with an empty candidate list,
\* the call is over with NotFound (404): it is not retried, so the provider
\* is not queried again for that call.
C11_EmptyAnswerNotRetried ==
    LastResponse = "empty" => call.pc = "done" /\ call.exc = 404

\* The attempt that received the last response is over
AttemptOver == call.pc \in {"done", "backoff"} /\ call.last # <<>>

\* The last response was a rate limit
LastRateLimited == call.last # <<>> /\ call.last[1].status \in {429, 509}

\* The local table in memory has an entry for the call's normalized name
TableHasEntry == _LOCAL_CITY_COORDS # <<>> /\ call.q \in DOMAIN _LOCAL_CITY_COORDS[1]
TableLacksEntry == _LOCAL_CITY_COORDS # <<>> /\ call.q \notin DOMAIN _LOCAL_CITY_COORDS[1]

\* C12: an attempt answered with 429 or 509, for a name the local table
\* holds, ends the call returning the table's coordinates without raising;
\* a Retry-After that parses as seconds has been slept first, and nothing is
\* returned during that sleep.
C12_RateLimitFallsBackToLocal ==
    /\ (AttemptOver /\ LastRateLimited /\ TableHasEntry) =>
           /\ call.pc = "done"
           /\ call.exc = 0
           /\ call.returned = <<_LOCAL_CITY_COORDS[1][call.q]>>
           /\ (call.last[1].retry_after # <<>> /\ call.last[1].retry_after[1].fmt = "int") =>
                  /\ call.slept # <<>>
                  /\ call.slept[Len(call.slept)] = call.last[1].retry_after[1].t
    /\ call.pc = "retry_after" => call.returned = <<>>

C12_Witness ==
    /\ call.pc = "done"
    /\ call.city = City("firenze", TRUE, TRUE)
    /\ call.last # <<>> /\ call.last[1].status = 509
    /\ call.last[1].retry_after = <<Digits(1)>>
    /\ call.slept = <<1>>
    /\ call.returned = <<Coords(437, 112)>>

\* A rate-limit response has been received and the call is not over
RateLimitedUnderWay == call.pc \in {"retry_after", "backoff"} /\ LastRateLimited

\* C13: an attempt answered with 429 or 509, for a name the local table
\* lacks, returns no coordinates and raises 503; and a call that has received
\* a rate-limit response always comes to an end.
C13_RateLimitWithoutLocalIs503 ==
    /\ []((AttemptOver /\ LastRateLimited /\ TableLacksEntry) =>
             /\ call.returned = <<>>
             /\ call.pc = "done" => call.exc = 503
             /\ call.pc = "backoff" => call.pending = 503)
    /\ (RateLimitedUnderWay ~> call.pc = "done")

C13_Witness ==
    /\ call.pc = "done"
    /\ LastRateLimited
    /\ TableLacksEntry
    /\ call.exc = 503
    /\ call.contacts = 3

Increasing(s) == \A i \in DOMAIN s : \A j \in DOMAIN s : i < j => s[i] < s[j]

\* C15: a call sends at most 3 GETs in at most 3 attempts, the delays between
\* its attempts grow, and a call under way always ends, with coordinates or
\* with an error.
C15_BoundedAttemptsAndTermination ==
    /\ [](/\ call.contacts <= 3
          /\ call.attempt <= 3
          /\ Len(call.waits) <= 2
          /\ Increasing(call.waits)
          /\ call.pc = "done" => (call.returned # <<>>) # (call.exc # 0))
    /\ (call.pc \in {"get", "retry_after", "backoff"} ~> call.pc = "done")

C15_Witness ==
    /\ call.pc = "done"
    /\ call.contacts = 3
    /\ call.waits = <<1, 2>>

----------------------------------------------------------------------------
(* Claims about the search endpoint *)

\* The request was answered with a SearchResponse
Answered == search.pc = "done" /\ search.response # <<>>

\* C16: a search whose geocoding ended with 503 is answered with an empty
\* station list and a warning that is not the "check the city name" message
\* given for 404; a search whose geocoding ended with 404 is answered with
\* an empty station list and that message.
C16_UnavailableIsNotCityNotFound ==
    /\ (search.pc = "done" /\ search.geocode_exc = 503) =>
           /\ Answered
           /\ search.response[1].stations = <<>>
           /\ search.response[1].warning # <<>>
           /\ search.response[1].warning # <<CITY_NOT_FOUND>>
    /\ (search.pc = "done" /\ search.geocode_exc = 404) =>
           /\ Answered
           /\ search.response[1].stations = <<>>
           /\ search.response[1].warning = <<CITY_NOT_FOUND>>

\* The warnings that contain the words "timed out"
MentionsTimedOut == {TIMEOUT_GEOCODING, TIMEOUT_FETCHING}

\* wait_for gave up on a stage of the request
TimedOut == search.timed_out # ""

----------------------------------------------------------------------------
(* Claims about the reload endpoint *)

\* The cache file holds, whole, the dataset the reload task merged
RewrittenByReload ==
    /\ task["reload"].combined # <<>>
    /\ cacheFile.exists /\ cacheFile.complete
    /\ cacheFile.doc = json_dumps(task["reload"].combined[1])

----------------------------------------------------------------------------
(* Claims about the snapshots *)

SnapshotPrefixes == {ANAG_PREFIX, PREZZI_PREFIX}

\* kept are the keep files of greatest name among files (all when fewer)
KeepGreatest(kept, files, keep) ==
    /\ kept \subseteq files
    /\ Cardinality(kept) = Min(keep, Cardinality(files))
    /\ \A f \in kept : \A g \in files \ kept : g.ts < f.ts

C20_FinalNameIsComplete ==
    \A f \in dirFiles : ~f.part => Complete(f)

\* A step of _save_csv_files that changed the snapshot directory
SnapshotWrittenBy(t) ==
    /\ task[t].pc = "save"
    /\ task'[t] # task[t]
    /\ snapshots' # snapshots

\* C21: a timestamped snapshot pair is written only by a fetch whose remote
\* download succeeded; a fetch served by the local fallback writes none.
C21_SnapshotsOnlyAfterRemoteFetch ==
    [][\A t \in Fetchers : SnapshotWrittenBy(t) => task[t].remote = "ok"]_vars

\* The query's cache check found a fresh file whose text is no JSON document
ReadUnparsable(t) == task[t].fresh /\ task[t].read_partial

\* C22: a fresh cache file that does not parse as JSON is read as absent, with
\* no exception; the query goes on to a full fetch, and when that fetch
\* delivers texts the answer is the filter's result on the dataset parsed from
\* them.  The only error such a query can end with is the fetch's own.
C22_UnparsableCacheDegradesToFetch ==
    \A t \in Queries :
        ReadUnparsable(t) =>
            /\ task[t].cached = <<>>
            /\ task[t].pc \notin {"idle", "load_cached"}
            /\ task[t].pc # "fetch" => task[t].reqs = {"anagrafica", "prezzi"}
            /\ task[t].err # "" => task[t].pc = "done" /\ task[t].err = task[t].original_exc
            /\ (task[t].pc = "done" /\ task[t].err = "") =>
                  /\ task[t].origin \notin {"cache", "none"}
                  /\ task[t].result =
                        _filter_and_transform_combined(
                            ParseTexts(task[t].texts, force_delimiter),
                            QueryParams, Now).stations

C22_Witness ==
    \E t \in Queries :
        /\ ReadUnparsable(t)
        /\ task[t].pc = "done"
        /\ task[t].err = ""
        /\ task[t].result # <<>>

----------------------------------------------------------------------------
(* Claims about the parser and merger, checked under SpecParse *)

Parsed == parsing.pc \in {"parsed", "queried", "stored", "loaded"}

\* The delimiter the parse used is the one the texts were written with
Delimited == parsing.force = <<>> \/ parsing.force = <<csvText.prezzi.sep>>

\* A price field that spells a number
IsNumeral(s) == s.fmt \in {"int", "dec"}

FuelKinds == {"benzina", "gasolio", "GPL", "metano"}

PriceRows == DataRows(csvText.prezzi)

\* The price rows of a station and kind, whatever their price field holds
RowsOf(id, kind) ==
    {i \in DOMAIN PriceRows :
        /\ Len(PriceRows[i]) >= 5
        /\ PriceRows[i][1] = Digits(id)
        /\ Canonical(PriceRows[i][2].fmt) = kind}

\* Those that spell a price
NumeralRowsOf(id, kind) == {i \in RowsOf(id, kind) : IsNumeral(PriceRows[i][3])}

EntryOfRow(i) ==
    [prezzo |-> PriceRows[i][3].t,
     self   |-> PriceRows[i][4] = Digits(1),
     data   |-> PriceRows[i][5]]

\* The earliest of the rows of lowest price
LowestEarliest(rows) ==
    CHOOSE i \in rows :
        \A k \in rows :
            \/ PriceRows[i][3].t < PriceRows[k][3].t
            \/ PriceRows[i][3].t = PriceRows[k][3].t /\ i <= k

\* C23: for every station and kind the merged dataset holds the entry of the
\* row of lowest price among the station's rows of that kind, and of the
\* earliest such row when several rows have that price.
C23_LowestPriceEarliestRow ==
    (Parsed /\ Delimited) =>
        \A n \in DOMAIN parsing.combined : \A kind \in FuelKinds :
            LET s    == parsing.combined[n]
                rows == NumeralRowsOf(s.id, kind)
            IN  rows # {} =>
                    /\ kind \in DOMAIN s.prezzi
                    /\ s.prezzi[kind] = EntryOfRow(LowestEarliest(rows))

\* How many stations of the merged dataset have no row spelling a price for kind
WithoutPrice(kind) ==
    Cardinality({n \in DOMAIN parsing.combined :
                    NumeralRowsOf(parsing.combined[n].id, kind) = {}})

\* C24: a price row whose price field is empty or spells no number creates no
\* entry and neither replaces nor removes one: every entry of the merged
\* dataset comes from a row that spells a price, and every station and kind
\* with such a row has an entry.  A station whose rows for the requested kind
\* all lack a price is left out of the answer and counted as excluded for
\* having no price, and the query raises nothing.
C24_MalformedPriceMakesNoEntry ==
    /\ (Parsed /\ Delimited) =>
          \A n \in DOMAIN parsing.combined :
              LET s == parsing.combined[n]
              IN  /\ \A kind \in DOMAIN s.prezzi :
                        \E i \in NumeralRowsOf(s.id, kind) : s.prezzi[kind] = EntryOfRow(i)
                  /\ \A kind \in FuelKinds :
                        NumeralRowsOf(s.id, kind) # {} => kind \in DOMAIN s.prezzi
    /\ (parsing.pc = "queried" /\ Delimited) =>
          LET kind == normalize_fuel_type(parsing.fuel)
          IN  /\ ~parsing.out.raised
              /\ parsing.out.excluded_no_price = WithoutPrice(kind)
              /\ Len(parsing.out.stations) = Len(parsing.combined) - WithoutPrice(kind)

AnagRows == DataRows(csvText.anag)

\* The ids of the merged dataset
MergedIds == {parsing.combined[n].id : n \in DOMAIN parsing.combined}

DigitIds == {AnagRows[i][1].t : i \in {k \in DOMAIN AnagRows : AnagRows[k][1].fmt = "int"}}

NamesIn(fuel_raw) ==
    {c \in DOMAIN CanonicalCandidates : FuelContains(fuel_raw, CanonicalCandidates[c])}

FirstNameIn(fuel_raw) ==
    CanonicalCandidates[CHOOSE c \in NamesIn(fuel_raw) : \A k \in NamesIn(fuel_raw) : c <= k]

\* A query for `asked` is a query for the kind `name` names
AsksFor(asked, name) == asked = name \/ {asked, name} \subseteq {"gasolio", "diesel"}

\* The key the filter looks up for the query made
LookedUp == ParamFuel(FuelQuery(parsing.fuel))

\* C26: a price row whose fuel text contains a canonical name (benzina,
\* gasolio, diesel, gpl, metano; the first contained wins) is stored under the
\* key that a query for that kind looks up: the station has an entry under
\* that key, no dearer than the row's price, and the query returns a station.
C26_StoredKeyIsLookedUpKey ==
    (parsing.pc = "queried" /\ Delimited) =>
        \A i \in DOMAIN PriceRows : \A n \in DOMAIN parsing.combined :
            LET row == PriceRows[i]
                s   == parsing.combined[n]
            IN  ( /\ Len(row) >= 5
                  /\ row[1] = Digits(s.id)
                  /\ IsNumeral(row[3])
                  /\ NamesIn(row[2].fmt) # {}
                  /\ AsksFor(parsing.fuel, FirstNameIn(row[2].fmt)) )
                =>  /\ LookedUp \in DOMAIN s.prezzi
                    /\ ~FloatLt(row[3].t, s.prezzi[LookedUp].prezzo)
                    /\ Len(parsing.out.stations) >= 1

\* 'benzina senza piombo' asked for as 'benzina'
C26_Witness ==
    /\ parsing.pc = "queried" /\ Delimited
    /\ parsing.fuel = "benzina"
    /\ \E i \in DOMAIN PriceRows :
          /\ PriceRows[i][2] = Txt("benzina senza piombo")
          /\ PriceRows[i][1] = Digits(1)
    /\ Len(PriceRows) = 1
    /\ Len(parsing.out.stations) = 1
    /\ parsing.out.stations[1].prezzo = 1500

Forced(d) == parsing.force = <<d>>

\* C29: a forced delimiter is used for both texts in place of the detected
\* one.  Forcing the delimiter the texts are written with yields the stations
\* of the registry's digit-id rows; forcing the other one yields an empty
\* dataset, and the query on it returns no station and raises nothing.
C29_ForcedDelimiterIsUsed ==
    \A d \in Separators :
        (Parsed /\ Forced(d)) =>
            IF d = csvText.anag.sep
            THEN MergedIds = DigitIds
            ELSE /\ parsing.combined = <<>>
                 /\ parsing.pc = "queried" =>
                       /\ parsing.out.stations = <<>>
                       /\ ~parsing.out.raised

\* '|' forced on semicolon texts that hold a station and a price of the asked kind
C29_Witness ==
    /\ parsing.pc = "queried"
    /\ Forced("|")
    /\ csvText.anag.sep = ";" /\ csvText.prezzi.sep = ";"
    /\ 1 \in DigitIds
    /\ NumeralRowsOf(1, LookedUp) # {}
    /\ parsing.out.stations = <<>>

----------------------------------------------------------------------------
(* Claims about the geocoder's cache key, checked under SpecGeo *)

\* Two inputs name the same city once blanks, capitals and aliases are set aside
SameCity(a, b) ==
    LET plain(c) == IF c.name = "florence" THEN "firenze" ELSE c.name
    IN  plain(a) = plain(b)

\* A step that starts a call right after a call that returned coordinates
NextCallAfterAnswer ==
    /\ call.pc = "done"
    /\ call.returned # <<>>
    /\ call'.pc # "idle"
    /\ call' # call

\* A step that ends a call with coordinates
CallAnswered ==
    /\ call' # call
    /\ call'.pc = "done"
    /\ call'.returned # <<>>

----------------------------------------------------------------------------
(* Claims about parse_and_normalize_stations, checked under SpecNormalize *)

Normalized == normalizing.pc = "done"

\* A value float() cannot read: a string that spells no dot-decimal number, a list
Unreadable(x) ==
    \/ x.ty = "str" /\ x.s.fmt \notin {"dot", "int"}
    \/ x.ty = "list"

\* A coordinate that is absent, None, empty or zero
ZeroOrAbsent(x) ==
    \/ x.ty \in {"missing", "none"}
    \/ x.ty = "float" /\ x.v = 0
    \/ x.ty = "str" /\ (x.s = Txt("") \/ (x.s.fmt \in {"dot", "int"} /\ x.s.t = 0))

\* The entries the function has to skip
Incomplete(e) ==
    \/ ~e.isdict
    \/ Unreadable(e.prezzo)
    \/ e.latitudine # Str(Txt("")) /\ Unreadable(e.latitudine)
    \/ e.longitudine # Str(Txt("")) /\ Unreadable(e.longitudine)
    \/ ZeroOrAbsent(e.latitudine) /\ ZeroOrAbsent(e.longitudine)

Entries == stations_payload.items

\* C28: parse_and_normalize_stations raises on no entry and returns no
\* station at (0,0); every entry of the payload is either normalized or
\* counted once as skipped (no dict, coordinates (0,0) or absent, unreadable
\* price or coordinate), so the stations normalized before truncation plus
\* the skipped count is the number of entries.
C28_EveryEntryNormalizedOrSkipped ==
    Normalized =>
        LET out == normalizing.out
        IN  /\ out.raised = ""
            /\ \A k \in DOMAIN out.stations :
                  ~(out.stations[k].latitude = 0 /\ out.stations[k].longitude = 0)
            /\ out.normalized + out.skipped_count = Len(Entries)
            /\ out.skipped_count = Cardinality({i \in DOMAIN Entries : Incomplete(Entries[i])})
            /\ \A k \in DOMAIN out.stations : ~Incomplete(Entries[out.stations[k].id + 1])
            /\ Len(out.stations) = Min(out.normalized, Max(1, normalizing.results_limit))

\* A payload of a non-dict, a (0,0) entry and a whole entry
C28_Witness ==
    /\ Normalized
    /\ Len(Entries) = 3
    /\ \E i \in DOMAIN Entries : ~Entries[i].isdict
    /\ \E i \in DOMAIN Entries : Entries[i] = Entry(Float(1400), Float(0), Float(0))
    /\ normalizing.out.skipped_count = 2
    /\ Len(normalizing.out.stations) = 1

----------------------------------------------------------------------------
(* Claims about the cache file's round trip, checked under SpecParse *)

\* C30: storing a merged dataset to the cache path and loading that path
\* returns a dataset equal to the one stored.
C30_StoreThenLoadIsEqual ==
    parsing.pc = "loaded" =>
        /\ parsing.loaded # <<>>
        /\ DatasetsEqual(parsing.loaded[1], parsing.combined)

----------------------------------------------------------------------------
(* Claims about the pipeline's parses, fetches and stores, checked under Spec *)

\* The task holds the dataset it parsed from the texts it fetched
HoldsParse(t) == task[t].texts # <<>> /\ task[t].combined # <<>>

StaleOrMissing == ~cacheFile.exists \/ Now - cacheFile.mtime >= prezzi_cache_hours

\* A step in which a query makes its cache check
ChecksCache(t) == task[t].pc = "idle" /\ task'[t].pc # "idle"

\* C32: a cache file that is not fresh is never used to answer a query.  A
\* query that finds the file stale or missing goes to the fetch, never holds
\* the file's dataset, and when the download fails and no local pair can be
\* read it ends with the fetch's exception and no stations, whatever the
\* stale file holds.
C32_StaleCacheIsNotUsed ==
    /\ [][\A t \in Queries :
             (ChecksCache(t) /\ StaleOrMissing) =>
                 ~task'[t].fresh /\ task'[t].pc = "fetch"]_vars
    /\ [](\A t \in Queries :
             (task[t].pc # "idle" /\ ~task[t].fresh) =>
                 /\ task[t].cached = <<>>
                 /\ task[t].origin # "cache"
                 /\ (task[t].pc = "done" /\ task[t].texts = <<>>) =>
                       /\ task[t].remote = "failed"
                       /\ task[t].err \in RemoteResults \ {"ok"}
                       /\ task[t].result = <<>>)

\* A query has failed while a stale, whole, non-empty cache file is there
C32_Witness ==
    /\ task["q1"].pc = "done"
    /\ ~task["q1"].fresh
    /\ task["q1"].err # ""
    /\ cacheFile.exists /\ cacheFile.complete /\ Len(cacheFile.doc) > 0
    /\ StaleOrMissing

\* Where a text comes from: the remote, or the candidate directory whose file it is
OriginOf(name) ==
    IF name \in RemoteVersions THEN "remote"
    ELSE IF name = PlainPairOf(_candidate_local_csv_dirs[1])
    THEN _candidate_local_csv_dirs[1]
    ELSE _candidate_local_csv_dirs[2]

\* C33: the two texts one fetch returns have the same origin.  Both are the
\* remote's, and then both GETs ended with a 2xx response, or both are the files
\* of one candidate directory, which holds the two of them; the registry of one
\* origin is never paired with the prices of another.
C33_TextsShareOrigin ==
    /\ \A a \in RemoteResults, p \in RemoteResults, f \in {"anagrafica", "prezzi"} :
          gather_and_raise_for_status(a, p, f) = "ok" <=> (a = "ok" /\ p = "ok")
    /\ \A t \in Fetchers :
          task[t].texts # <<>> =>
              /\ OriginOf(task[t].texts[1]) = OriginOf(task[t].texts[2])
              /\ task[t].origin = OriginOf(task[t].texts[1])
              /\ task[t].origin = "remote" <=> task[t].remote = "ok"
              /\ task[t].origin # "remote" => PairIn(task[t].origin) \subseteq plainDirs

\* A fetch fell back to the second directory's pair while the first directory
\* holds a registry file of its own
C33_Witness ==
    \E t \in Fetchers :
        /\ task[t].texts # <<>>
        /\ task[t].origin = _candidate_local_csv_dirs[2]
        /\ <<_candidate_local_csv_dirs[1], "anagrafica_impianti_attivi.csv">> \in plainDirs

\* Where a task is while it writes the cache file or saves the snapshots
PersistSteps == {"write_json", "writing", "save", "write_json2", "writing2"}

\* A step in which the write of the cache file raised before writing anything
WriteRaised(t) ==
    /\ task[t].pc \in {"write_json", "write_json2"}
    /\ task'[t].pc \notin {task[t].pc, "writing", "writing2"}

\* A step in which _save_csv_files returned None
SaveRaised(t) == task[t].pc = "save" /\ task'[t].pc # "save" /\ task'[t].saved_dir = <<>>

\* C34: a failure to persist never fails the query.  No step of writing the
\* cache file or of saving the snapshots, failing or not, ends the query, leaves
\* it an exception or touches the dataset parsed from the fetched texts; a
\* failed write goes on to the save, a failed save goes on to the filter; and a
\* query that fetched a pair of texts ends without exception, with the filter's
\* result on the dataset parsed from them.
C34_PersistFailureDoesNotFailQuery ==
    /\ [][\A t \in Queries :
             task[t].pc \in PersistSteps =>
                 /\ task'[t].pc # "done"
                 /\ task'[t].err = ""
                 /\ task'[t].combined = task[t].combined
                 /\ WriteRaised(t) =>
                        task'[t].pc = IF task[t].pc = "write_json" THEN "save" ELSE "filter"
                 /\ SaveRaised(t) => task'[t].pc = "filter"]_vars
    /\ [](\A t \in Queries :
             (task[t].pc = "done" /\ task[t].texts # <<>>) =>
                 LET out == _filter_and_transform_combined(
                                ParseTexts(task[t].texts, force_delimiter), QueryParams, Now)
                 IN  /\ task[t].err = ""
                     /\ task[t].result = out.stations)

\* A query answered with stations although neither the cache file nor a
\* snapshot could be written
C34_Witness ==
    /\ task["q1"].pc = "done"
    /\ task["q1"].remote = "ok"
    /\ task["q1"].saved_dir = <<>>
    /\ task["q1"].err = ""
    /\ Len(task["q1"].result) > 0
    /\ ~cacheFile.exists
    /\ snapshots = NoSnapshots

----------------------------------------------------------------------------
(* Claims about the geocoder's fallback and its local table, checked under
   SpecGeo *)

\* A step in which an attempt is answered from the local table
AnswersFromFallback ==
    /\ call.pc \in {"get", "retry_after"}
    /\ call'.pc = "done"
    /\ call'.fallback

\* A step in which geocode_city is called
StartsCall ==
    /\ call.pc \in {"idle", "done", "cancelled"}
    /\ call' # call
    /\ call'.pc \in {"get", "done"}

\* The cache holds, under the name q, the coordinates the local table memo has
\* for it
FallbackEntryIn(cache, memo, q) ==
    /\ q \in DOMAIN cache
    /\ memo # <<>>
    /\ q \in DOMAIN memo[1]
    /\ cache[q] = memo[1][q]

HoldsFallbackEntry(q) == FallbackEntryIn(geocoding_cache, _LOCAL_CITY_COORDS, q)

FallbackHandlerRuns ==
    /\ call.pc \in {"get", "retry_after"}
    /\ call'.pc \in {"done", "backoff"}
    /\ call'.last # <<>> /\ LoadsTable(call'.last[1])

\* C38: the local coordinate table is loaded at most once.  The table is read
\* only by a fallback handler that finds none in memory, and is then what
\* cities.json holds at that moment, the empty table when there is no file; once
\* a table is in memory no step replaces it, and every later fallback handler
\* answers from it or raises by it alone, whatever cities.json has become since.
C38_LocalTableLoadedOnce ==
    /\ [][_LOCAL_CITY_COORDS # <<>> => _LOCAL_CITY_COORDS' = _LOCAL_CITY_COORDS]_vars
    /\ [][(_LOCAL_CITY_COORDS = <<>> /\ _LOCAL_CITY_COORDS' # <<>>) =>
             /\ FallbackHandlerRuns
             /\ _LOCAL_CITY_COORDS' =
                   <<IF citiesFile = <<>> THEN EmptyTable ELSE TableOf(citiesFile[1])>>]_vars
    /\ [][FallbackHandlerRuns =>
             /\ _LOCAL_CITY_COORDS' # <<>>
             /\ call'.fallback <=> call'.q \in DOMAIN _LOCAL_CITY_COORDS'[1]
             /\ call'.fallback => call'.returned = <<_LOCAL_CITY_COORDS'[1][call'.q]>>]_vars

\* The empty table was loaded when there was no cities.json; the file has
\* appeared since, and a rate-limited call for a city of the file still ends
\* with 503
C38_Witness ==
    /\ _LOCAL_CITY_COORDS = <<EmptyTable>>
    /\ citiesFile # <<>>
    /\ call.pc = "done"
    /\ call.q = "firenze"
    /\ LastRateLimited
    /\ call.exc = 503
    /\ call.cache_at_start = NoCache

----------------------------------------------------------------------------
(* Claims about the filter's accounting, checked under SpecFilter *)

\* The stations that pass the four checks, before the sort and the truncation
PassedChecks == Kept(combined, filterIn.params, filterIn.now)

\* The four counters the filter keeps
Excluded ==
    filterOut.excluded_no_price + filterOut.excluded_stale
        + filterOut.excluded_invalid_coords + filterOut.excluded_out_of_distance

\* C37 (as claimed): the filter accounts for every station exactly once: the
\* call completes, and the stations that survive the four checks plus the four
\* exclusion counters add up to the size of the dataset.
C37_EveryStationAccountedOnce ==
    phase = "filtered" =>
        /\ ~filterOut.raised
        /\ Len(PassedChecks) + Excluded = Len(combined)

----------------------------------------------------------------------------
(* Claims about delimiter detection, checked under SpecDetect *)

\* The first non-blank line of the sample
HeaderLine == NonBlank(detecting.sample)[1]

\* The most pieces any candidate splits the first non-blank line into
MostColumns ==
    CHOOSE n \in 1..MaxCols :
        /\ \E d \in Range(DelimiterCandidates) : HeaderLine.cols[d] = n
        /\ \A d \in Range(DelimiterCandidates) : HeaderLine.cols[d] <= n

\* The earliest candidate that splits the first non-blank line into n pieces
EarliestWith(n) ==
    DelimiterCandidates[CHOOSE i \in DOMAIN DelimiterCandidates :
                            /\ HeaderLine.cols[DelimiterCandidates[i]] = n
                            /\ \A j \in 1..(i - 1) :
                                  HeaderLine.cols[DelimiterCandidates[j]] # n]

\* C36: detection returns the candidate among '|', ';', ',' and tab that splits
\* the first non-blank line into the most columns, when that is at least two,
\* and on equal counts the earlier candidate; when no candidate yields two
\* columns the sniff decides, and '|' is returned when the sniff fails or the
\* text has no non-blank line.
C36_MostColumnsEarliestCandidate ==
    detecting.pc = "detected" =>
        IF NonBlank(detecting.sample) = <<>> THEN detecting.out = "|"
        ELSE IF MostColumns >= MIN_CSV_COLUMNS THEN detecting.out = EarliestWith(MostColumns)
        ELSE IF detecting.sniffed = <<>> THEN detecting.out = "|"
        ELSE detecting.out = detecting.sniffed[1]

\* After a blank line, a header that ';' and ',' both split in three and '|' in
\* two: ';' is detected
C36_Witness ==
    /\ detecting.pc = "detected"
    /\ Len(detecting.sample) = 2
    /\ detecting.sample[1].blank
    /\ ~detecting.sample[2].blank
    /\ detecting.sample[2].cols["|"] = 2
    /\ detecting.sample[2].cols[";"] = 3
    /\ detecting.sample[2].cols[","] = 3
    /\ detecting.out = ";"

----------------------------------------------------------------------------
(* Claims about the candidate directories, checked under Spec *)

\* The project-level directory src/static/data
ProjectStaticData == "PROJECT_ROOT/src/static/data"

\* The first directory of dirs, in order, that holds both files in plain
FirstHoldingPair(dirs, plain) ==
    dirs[CHOOSE i \in DOMAIN dirs :
            /\ PairIn(dirs[i]) \subseteq plain
            /\ \A j \in 1..(i - 1) : ~(PairIn(dirs[j]) \subseteq plain)]

\* C39 (as claimed): the candidate directories are tried in a fixed order for
\* loading and for saving: a configured override comes first; with no override
\* the first, preferred candidate is the project-level src/static/data, which
\* is where a save puts its snapshots; and a local load returns the pair of the
\* first candidate that holds both files.
C39_PreferredIsProjectStaticData ==
    /\ candidate_dirs(<<"custom">>)[1] = "custom"
    /\ \A t \in Fetchers :
          /\ task[t].saved_dir # <<>> => task[t].saved_dir[1] = ProjectStaticData
          /\ (task[t].texts # <<>> /\ task[t].origin # "remote") =>
                task[t].origin = FirstHoldingPair(_candidate_local_csv_dirs, plainDirs)

====
